---------------------------- MODULE Spec2Model ----------------------------
(***************************************************************************)
(* A model of gitwrapped: the commit-streak calculator (getStreakStats),   *)
(* the duration formatter (formatDuration), the command runner             *)
(* (execCommand), the statistics aggregators (getBasicStats, getLineStats, *)
(* getContributorStats, getTimeBasedStats, getCommitFrequencyStats,        *)
(* getCommitSizeStats, getLanguageStats, getFileChurnStats) with the       *)
(* options and date filter they take, the time section of the display      *)
(* (displayTimeAnalysis), and the single-file program of index.js          *)
(* (getGitWrapped).                                                        *)
(*                                                                         *)
(* Time.  An instant is a whole number of hours since the epoch: the       *)
(* streak calculator only sees day strings (YYYY-MM-DD) and local          *)
(* midnights, and the machine's time zone has a whole-hour offset.  A      *)
(* calendar day is its day number; "YYYY-MM-DD" strings of equal length    *)
(* order as their day numbers do.                                          *)
(***************************************************************************)
EXTENDS Integers, Sequences, FiniteSets, TLC

VARIABLES
    tz,        \* the machine's time zone (see TimeZones)
    now,       \* the instant new Date() returns
    gitOk,     \* whether the git pipeline runs without error
    commits,   \* the %ai day of every commit `git log` prints, in log order
    pc,        \* where getStreakStats is: "idle", "scan", "done"
    sk,        \* the locals of getStreakStats
    result,    \* the record getStreakStats returned last
    prev,      \* the record before it, and the 'today' it was computed on
    arg,       \* the arguments of a call of formatDuration, execCommand, ...
    ret        \* what the call returned

streakVars == <<tz, now, gitOk, commits, pc, sk, result, prev>>
callVars == <<arg, ret>>
vars == <<tz, now, gitOk, commits, pc, sk, result, prev, arg, ret>>

---------------------------------------------------------------------------
(* Bounds of the model.                                                    *)

\* Commit days are 0..MaxDay.
MaxDay == 4
\* `git log` prints at most MaxCommits commits.
MaxCommits == 4
\* 'today' advances up to this many days past MaxDay.
MaxAhead == 3

Days == 0..MaxDay

RECURSIVE SeqsUpTo(_, _)
SeqsUpTo(S, n) ==
    IF n = 0 THEN {<<>>}
    ELSE LET shorter == SeqsUpTo(S, n - 1)
         IN  shorter \cup {Append(s, x) : s \in {t \in shorter : Len(t) = n - 1}, x \in S}

---------------------------------------------------------------------------
(* Dates (new Date, setHours, toISOString).                                *)

\* (1000 * 60 * 60 * 24) ms, in hours.
DayLen == 24

\* A time zone: offset `off` hours east of UTC, and, when delta # 0, a
\* daylight-saving transition on local day `at` at 02:00 wall time after
\* which the offset is off + delta.
TimeZones ==
    { [off |-> 0,  delta |-> 0,  at |-> 0],      \* UTC
      [off |-> -5, delta |-> 0,  at |-> 0],      \* west of UTC, no DST
      [off |-> 2,  delta |-> 0,  at |-> 0],      \* east of UTC, no DST
      [off |-> 1,  delta |-> 1,  at |-> 2],      \* clocks go forward on day 2
      [off |-> -4, delta |-> -1, at |-> 2] }     \* clocks go back on day 2

TransitionInstant(z) == z.at * DayLen + 2 - z.off

OffsetAt(t, z) ==
    IF z.delta # 0 /\ t >= TransitionInstant(z) THEN z.off + z.delta ELSE z.off

\* The local calendar day of instant t.
LocalDay(t, z) == (t + OffsetAt(t, z)) \div DayLen

\* The instant of 00:00 wall time on local day L.
LocalMidnight(L, z) ==
    IF z.delta # 0 /\ L > z.at THEN L * DayLen - z.off - z.delta
    ELSE L * DayLen - z.off

\* new Date("YYYY-MM-DD"): a date-only string is midnight UTC of that day.
ParseDate(d) == d * DayLen

\* date.setHours(0, 0, 0, 0): midnight, local time, of the date's local day.
SetHoursMidnight(t, z) == LocalMidnight(LocalDay(t, z), z)

\* date.toISOString().split("T")[0]: the UTC day of the instant.
ToISODate(t) == t \div DayLen

\* Math.floor((a - b) / (1000 * 60 * 60 * 24))
DaysBetween(a, b) == (a - b) \div DayLen

---------------------------------------------------------------------------
(* The command of getStreakStats: git log | cut -d' ' -f1 | sort -u, then  *)
(* execCommand's trim and null-on-empty.                                   *)

Null == [null |-> TRUE]
Text(lines) == [null |-> FALSE, lines |-> lines]

RECURSIVE InsertSorted(_, _, _)
\* s is ascending; x goes before the first greater element.  With unique,
\* an x already present is dropped.
InsertSorted(s, x, unique) ==
    IF s = <<>> THEN <<x>>
    ELSE IF unique /\ x = Head(s) THEN s
    ELSE IF x < Head(s) THEN <<x>> \o s
    ELSE <<Head(s)>> \o InsertSorted(Tail(s), x, unique)

RECURSIVE SortLines(_, _)
SortLines(s, unique) ==
    IF s = <<>> THEN <<>>
    ELSE InsertSorted(SortLines(Tail(s), unique), Head(s), unique)

\* sort -u
SortU(lines) == SortLines(lines, TRUE)

\* execCommand(`git log --format="%ai" ... | cut -d' ' -f1 | sort -u`)
StreakCommand(ok, log) ==
    IF ~ok THEN Null
    ELSE LET lines == SortU(log)
         IN  IF lines = <<>> THEN Null ELSE Text(lines)

\* commitDates: output.split("\n").filter(...).map(d => new Date(d)).sort((a, b) => a - b)
CommitDates(lines) ==
    SortLines([k \in 1..Len(lines) |-> ParseDate(lines[k])], FALSE)

---------------------------------------------------------------------------
(* getStreakStats.                                                         *)

NullDate == <<>>
DateKey(d) == <<d>>

\* ZeroRecord with the dates of an epoch Date instead of null.
ZeroRecordEpochDates ==
    [ currentStreak      |-> 0,
      longestStreak      |-> 0,
      longestStreakStart |-> <<0>>,
      longestStreakEnd   |-> <<0>>,
      totalActiveDays    |-> 0,
      streakMilestones   |-> <<>> ]

ZeroRecord ==
    [ currentStreak      |-> 0,
      longestStreak      |-> 0,
      longestStreakStart |-> NullDate,
      longestStreakEnd   |-> NullDate,
      totalActiveDays    |-> 0,
      streakMilestones   |-> <<>> ]

NoLocals == [commitDates |-> <<>>]

\* commitDates[i], i from 0
At(s, i) == s[i + 1]

RECURSIVE BackwardWalk(_, _, _, _, _)
\* The loop of lines 66-81 from index i down, with checkDate and the streak
\* counted so far.
BackwardWalk(dates, i, checkDate, streak, z) ==
    IF i < 0 THEN streak
    ELSE LET prevDate == SetHoursMidnight(At(dates, i), z)
             daysDiff == DaysBetween(checkDate, prevDate)
         IN  IF daysDiff = 1 THEN BackwardWalk(dates, i - 1, prevDate, streak + 1, z)
             ELSE IF daysDiff > 1 THEN streak
             ELSE BackwardWalk(dates, i - 1, checkDate, streak, z)

\* Lines 47-82.
CurrentStreak(dates, t, z) ==
    LET today               == SetHoursMidnight(t, z)
        lastCommitDate      == SetHoursMidnight(At(dates, Len(dates) - 1), z)
        daysSinceLastCommit == DaysBetween(today, lastCommitDate)
    IN  IF daysSinceLastCommit <= 1
        THEN BackwardWalk(dates, Len(dates) - 2, lastCommitDate, 1, z)
        ELSE 0

\* StreakMilestones as an else-if chain: the highest milestone alone.
StreakMilestonesHighestOnly(longestStreak) ==
    IF longestStreak >= 365 THEN <<"Year Legend">>
    ELSE IF longestStreak >= 100 THEN <<"Century Club">>
    ELSE IF longestStreak >= 30 THEN <<"Month Master">>
    ELSE IF longestStreak >= 7 THEN <<"Week Warrior">>
    ELSE <<>>

\* Lines 123-128.
StreakMilestones(longestStreak) ==
    (IF longestStreak >= 7 THEN <<"Week Warrior">> ELSE <<>>)
    \o (IF longestStreak >= 30 THEN <<"Month Master">> ELSE <<>>)
    \o (IF longestStreak >= 100 THEN <<"Century Club">> ELSE <<>>)
    \o (IF longestStreak >= 365 THEN <<"Year Legend">> ELSE <<>>)

\* ScanInit with the counts starting at 0.
ScanInitFromZero(commitDates) ==
    [ longestStreak      |-> 0,
      longestStreakStart |-> commitDates[1],
      longestStreakEnd   |-> commitDates[1],
      tempStreak         |-> 0,
      tempStreakStart    |-> commitDates[1] ]

\* Lines 85-89: the forward scan starts with a run of one day, the first.
ScanInit(commitDates) ==
    [ longestStreak      |-> 1,
      longestStreakStart |-> At(commitDates, 0),
      longestStreakEnd   |-> At(commitDates, 0),
      tempStreak         |-> 1,
      tempStreakStart    |-> At(commitDates, 0) ]

\* Lines 9-89: the command, the early returns, the current streak and the
\* initial values of the forward scan.
GetStreakStats ==
    /\ pc = "idle"
    /\ LET output == StreakCommand(gitOk, commits)
       IN  IF output.null
           THEN /\ result' = ZeroRecord
                /\ sk' = NoLocals
                /\ pc' = "done"
           ELSE LET commitDates == CommitDates(output.lines)
                IN  IF Len(commitDates) = 0
                    THEN /\ result' = ZeroRecord
                         /\ sk' = NoLocals
                         /\ pc' = "done"
                    ELSE /\ sk' = [ commitDates     |-> commitDates,
                                    totalActiveDays |-> Len(commitDates),
                                    currentStreak   |-> CurrentStreak(commitDates, now, tz),
                                    i               |-> 1 ]
                                  @@ ScanInit(commitDates)
                         /\ pc' = "scan"
                         /\ UNCHANGED result
    /\ UNCHANGED <<tz, now, gitOk, commits, prev, callVars>>

\* Lines 91-114: one iteration of the forward scan.
ScanStep ==
    /\ pc = "scan"
    /\ sk.i < Len(sk.commitDates)
    /\ LET prevDate == SetHoursMidnight(At(sk.commitDates, sk.i - 1), tz)
           currDate == SetHoursMidnight(At(sk.commitDates, sk.i), tz)
           daysDiff == DaysBetween(currDate, prevDate)
       IN  sk' =
             IF daysDiff = 1
             THEN [sk EXCEPT !.tempStreak = @ + 1, !.i = @ + 1]
             ELSE IF daysDiff = 0
             THEN [sk EXCEPT !.i = @ + 1]
             ELSE IF sk.tempStreak > sk.longestStreak
             THEN [sk EXCEPT !.longestStreak      = sk.tempStreak,
                             !.longestStreakStart = sk.tempStreakStart,
                             !.longestStreakEnd   = At(sk.commitDates, sk.i - 1),
                             !.tempStreak         = 1,
                             !.tempStreakStart    = currDate,
                             !.i                  = @ + 1]
             ELSE [sk EXCEPT !.tempStreak      = 1,
                             !.tempStreakStart = currDate,
                             !.i               = @ + 1]
    /\ UNCHANGED <<tz, now, gitOk, commits, pc, result, prev, callVars>>

\* No comparison after the loop.
FinalCompareSkipped(s) == s

\* Lines 116-121: the comparison after the loop.
FinalCompare(s) ==
    IF s.tempStreak > s.longestStreak
    THEN [s EXCEPT !.longestStreak      = s.tempStreak,
                   !.longestStreakStart = s.tempStreakStart,
                   !.longestStreakEnd   = At(s.commitDates, Len(s.commitDates) - 1)]
    ELSE s

\* Lines 116-137: the last comparison, the milestones and the record.
Finish ==
    /\ pc = "scan"
    /\ sk.i >= Len(sk.commitDates)
    /\ LET s == FinalCompare(sk)
       IN  /\ sk' = s
           /\ result' =
                [ currentStreak      |-> s.currentStreak,
                  longestStreak      |-> s.longestStreak,
                  longestStreakStart |-> DateKey(ToISODate(s.longestStreakStart)),
                  longestStreakEnd   |-> DateKey(ToISODate(s.longestStreakEnd)),
                  totalActiveDays    |-> s.totalActiveDays,
                  streakMilestones   |-> StreakMilestones(s.longestStreak) ]
    /\ pc' = "done"
    /\ UNCHANGED <<tz, now, gitOk, commits, prev, callVars>>

\* The tool is run again a day later on the same history.
NextDay ==
    /\ pc = "done"
    /\ now + DayLen < (MaxDay + MaxAhead + 1) * DayLen
    /\ now' = now + DayLen
    /\ prev' = [result |-> result, now |-> now]
    /\ pc' = "idle"
    /\ UNCHANGED <<tz, gitOk, commits, sk, result, callVars>>

NoPrev == [none |-> TRUE]
NoCall == [none |-> TRUE]

\* The instants the first run may start at: noon UTC of day 0.
StartInstants == {12}

StreakInit ==
    /\ tz \in TimeZones
    /\ now \in StartInstants
    /\ gitOk \in BOOLEAN
    /\ commits \in SeqsUpTo(Days, MaxCommits)
    /\ pc = "idle"
    /\ sk = NoLocals
    /\ result = ZeroRecord
    /\ prev = NoPrev
    /\ arg = NoCall
    /\ ret = NoCall

StreakNext == GetStreakStats \/ ScanStep \/ Finish \/ NextDay

StreakSpec == StreakInit /\ [][StreakNext]_vars

---------------------------------------------------------------------------
(* Calls of the pure functions.  arg holds the arguments of one call and   *)
(* ret what it returned; the streak calculator's variables are at rest.    *)

StreakAtRest ==
    /\ tz = [off |-> 0, delta |-> 0, at |-> 0]
    /\ now = 0
    /\ gitOk = FALSE
    /\ commits = <<>>
    /\ pc = "off"
    /\ sk = NoLocals
    /\ result = ZeroRecord
    /\ prev = NoPrev

\* The longest streaks the milestone ladder is applied to.
MaxStreak == 400

MilestoneInit ==
    /\ StreakAtRest
    /\ arg \in {[fn |-> "streakMilestones", longestStreak |-> n] : n \in 0..MaxStreak}
    /\ ret = NoCall

CallStreakMilestones ==
    /\ arg.fn = "streakMilestones"
    /\ ret = NoCall
    /\ ret' = [value |-> StreakMilestones(arg.longestStreak)]
    /\ UNCHANGED <<streakVars, arg>>

MilestoneNext == CallStreakMilestones

MilestoneSpec == MilestoneInit /\ [][MilestoneNext]_vars

---------------------------------------------------------------------------
(* formatDuration.  A Date is [d |-> whole days, ms |-> milliseconds into  *)
(* the day] (d * day + ms milliseconds since the epoch), so that the       *)
(* products day * 30 and day * 365 stay out of the arithmetic.  Spans are  *)
(* not negative: the callers pass the first and the last commit's date.    *)

second == 1000
minute == second * 60
hour == minute * 60
day == hour * 24
\* day * 7, day * 30 and day * 365, in days
week == 7
month == 30
year == 365

\* endDate - startDate, for endDate >= startDate
MillisBetween(endDate, startDate) ==
    IF endDate.ms >= startDate.ms
    THEN [d |-> endDate.d - startDate.d, ms |-> endDate.ms - startDate.ms]
    ELSE [d |-> endDate.d - startDate.d - 1, ms |-> endDate.ms + day - startDate.ms]

\* t % (day * k)
ModDays(t, k) == [d |-> t.d % k, ms |-> t.ms]

\* Math.floor(t / (day * k))
FloorDivDays(t, k) == t.d \div k

\* t % u, for a unit u that divides a day
ModUnit(t, u) == t.ms % u

\* Lines 63-69.
Components(totalMillis) ==
    [ years   |-> FloorDivDays(totalMillis, year),
      months  |-> FloorDivDays(ModDays(totalMillis, year), month),
      weeks   |-> FloorDivDays(ModDays(totalMillis, month), week),
      days    |-> FloorDivDays(ModDays(totalMillis, week), 1),
      hours   |-> ModUnit(totalMillis, day) \div hour,
      minutes |-> ModUnit(totalMillis, hour) \div minute,
      seconds |-> ModUnit(totalMillis, minute) \div second ]

\* `${n} unit${n > 1 ? "s" : ""}`, pushed when n is not 0
Part(n, unit) ==
    IF n = 0 THEN <<>>
    ELSE <<ToString(n) \o " " \o unit \o (IF n > 1 THEN "s" ELSE "")>>

RECURSIVE Join(_, _)
\* parts.join(sep)
Join(parts, sep) ==
    IF parts = <<>> THEN ""
    ELSE IF Len(parts) = 1 THEN parts[1]
    ELSE parts[1] \o sep \o Join(Tail(parts), sep)

\* JoinOrZero without the || "0 seconds".
JoinOnly(parts) == Join(parts, ", ")

\* Line 80: parts.join(", ") || "0 seconds"
JoinOrZero(parts) ==
    IF Join(parts, ", ") = "" THEN "0 seconds" ELSE Join(parts, ", ")

\* Lines 52-81.
FormatDuration(startDate, endDate) ==
    LET c == Components(MillisBetween(endDate, startDate))
        parts == Part(c.years, "year") \o Part(c.months, "month")
                 \o Part(c.weeks, "week") \o Part(c.days, "day")
                 \o Part(c.hours, "hour") \o Part(c.minutes, "minute")
                 \o Part(c.seconds, "second")
    IN  JoinOrZero(parts)

\* The dates of a call are on days 0..MaxDate ...
MaxDate == 400
\* ... at these times of day (milliseconds).
TimesOfDay == {0, 999, 1000, 61000, 3599999, 43200000, 86399999}
\* The start dates.
StartDates == [d : {0, 1, 10}, ms : TimesOfDay]

Before(a, b) == a.d < b.d \/ (a.d = b.d /\ a.ms <= b.ms)

DurationInit ==
    /\ StreakAtRest
    /\ \E a \in StartDates, b \in [d : 0..MaxDate, ms : TimesOfDay] :
          /\ Before(a, b)
          /\ arg = [fn |-> "formatDuration", startDate |-> a, endDate |-> b]
    /\ ret = NoCall

CallFormatDuration ==
    /\ arg.fn = "formatDuration"
    /\ ret = NoCall
    /\ ret' = [ value  |-> FormatDuration(arg.startDate, arg.endDate),
                locals |-> Components(MillisBetween(arg.endDate, arg.startDate)) ]
    /\ UNCHANGED <<streakVars, arg>>

DurationNext == CallFormatDuration

DurationSpec == DurationInit /\ [][DurationNext]_vars

---------------------------------------------------------------------------
(* execCommand.  The subprocess either fails (execSync throws: it cannot   *)
(* start, or exits non-zero) or prints a string, here a sequence of        *)
(* characters.                                                             *)

Whitespace == {" ", "\n"}
Chars == {"a", "b"} \cup Whitespace

\* The subprocess prints at most MaxOutput characters.
MaxOutput == 4

Str(text) == [null |-> FALSE, text |-> text]

RECURSIVE TrimStart(_)
TrimStart(s) ==
    IF s # <<>> /\ Head(s) \in Whitespace THEN TrimStart(Tail(s)) ELSE s

RECURSIVE TrimEnd(_)
TrimEnd(s) ==
    IF s # <<>> /\ s[Len(s)] \in Whitespace
    THEN TrimEnd(SubSeq(s, 1, Len(s) - 1))
    ELSE s

\* Trim that leaves the start alone (trimEnd).
TrimEndOnly(s) == TrimEnd(s)

\* String.prototype.trim
Trim(s) == TrimEnd(TrimStart(s))

\* Lines 19-25: the catch block logs when verbose, and returns null.
Catch(verbose, logged) ==
    [ value  |-> Null,
      raised |-> FALSE,
      logged |-> IF verbose
                 THEN logged \o <<"Error executing command", "Error message">>
                 ELSE logged ]

\* Lines 10-26.  outcome is what execSync did.
ExecCommand(outcome, verbose) ==
    IF outcome.threw THEN Catch(verbose, <<>>)
    ELSE LET res    == Trim(outcome.stdout)
             logged == IF verbose THEN <<"Command", "Output">> ELSE <<>>
         IN  IF res = <<>>
             THEN Catch(verbose, logged)
             ELSE [value |-> Str(res), raised |-> FALSE, logged |-> logged]

ExecInit ==
    /\ StreakAtRest
    /\ arg \in {[fn |-> "execCommand", outcome |-> o, verbose |-> v] :
                  o \in {[threw |-> TRUE]}
                        \cup {[threw |-> FALSE, stdout |-> t] : t \in SeqsUpTo(Chars, MaxOutput)},
                  v \in BOOLEAN}
    /\ ret = NoCall

CallExecCommand ==
    /\ arg.fn = "execCommand"
    /\ ret = NoCall
    /\ ret' = ExecCommand(arg.outcome, arg.verbose)
    /\ UNCHANGED <<streakVars, arg>>

ExecNext == CallExecCommand

ExecSpec == ExecInit /\ [][ExecNext]_vars

---------------------------------------------------------------------------
(* JavaScript values.  A value that may be null, undefined or NaN is a     *)
(* record, so that any two of them can be compared: Null and Str(text)     *)
(* from execCommand, Undefined for a missing property or an unmatched      *)
(* group, NaN and Num(n) for what parseInt returns.                        *)

Undefined == [undefined |-> TRUE]
NaN == [nan |-> TRUE]
Num(n) == [nan |-> FALSE, n |-> n]

\* if (v), !v, v || w: null, undefined, NaN, 0 and "" count as false.
Truthy(v) ==
    IF "text" \in DOMAIN v THEN v.text # ""
    ELSE IF "n" \in DOMAIN v THEN v.n # 0
    ELSE "inherited" \in DOMAIN v

Least(S) == CHOOSE x \in S : \A y \in S : x <= y

---------------------------------------------------------------------------
(* Strings.  The text of a command's output is a string; the String        *)
(* methods and the regular expressions the aggregators apply to it are     *)
(* computed character by character.                                        *)

charAt(s, i) == SubSeq(s, i, i)

\* What trim() removes and \s matches, among the characters of the model.
Blank == {" ", "\t", "\n"}

RECURSIVE StringTrimStart(_)
StringTrimStart(s) ==
    IF Len(s) > 0 /\ charAt(s, 1) \in Blank
    THEN StringTrimStart(SubSeq(s, 2, Len(s)))
    ELSE s

RECURSIVE StringTrimEnd(_)
StringTrimEnd(s) ==
    IF Len(s) > 0 /\ charAt(s, Len(s)) \in Blank
    THEN StringTrimEnd(SubSeq(s, 1, Len(s) - 1))
    ELSE s

\* String.prototype.trim
StringTrim(s) == StringTrimEnd(StringTrimStart(s))

\* sub occurs in s at index i.
StartsWithAt(s, i, sub) ==
    /\ i >= 1
    /\ i + Len(sub) - 1 <= Len(s)
    /\ SubSeq(s, i, i + Len(sub) - 1) = sub

Occurrences(s, sub) == {i \in 1..Len(s) : StartsWithAt(s, i, sub)}

\* String.prototype.includes
includes(s, sub) == Occurrences(s, sub) # {}

RECURSIVE split(_, _)
\* String.prototype.split with a separator of one or more characters
split(s, sep) ==
    IF Occurrences(s, sep) = {} THEN <<s>>
    ELSE LET k == Least(Occurrences(s, sep))
         IN  <<SubSeq(s, 1, k - 1)>> \o split(SubSeq(s, k + Len(sep), Len(s)), sep)

RECURSIVE ChangeCase(_, _, _)
\* s with each letter of `from` replaced by the letter at its place in `to`
ChangeCase(s, from, to) ==
    IF s = "" THEN ""
    ELSE (IF Occurrences(from, charAt(s, 1)) = {} THEN charAt(s, 1)
          ELSE charAt(to, Least(Occurrences(from, charAt(s, 1)))))
         \o ChangeCase(SubSeq(s, 2, Len(s)), from, to)

toUpperCase(s) == ChangeCase(s, "abcdefghijklmnopqrstuvwxyz", "ABCDEFGHIJKLMNOPQRSTUVWXYZ")

toLowerCase(s) == ChangeCase(s, "ABCDEFGHIJKLMNOPQRSTUVWXYZ", "abcdefghijklmnopqrstuvwxyz")

---------------------------------------------------------------------------
(* Numbers: \d+, parseInt, toFixed.                                        *)

IsDigit(c) == Len(c) = 1 /\ Occurrences("0123456789", c) # {}

DigitValue(c) == Least(Occurrences("0123456789", c)) - 1

RECURSIVE DigitsEnd(_, _)
\* The index after the longest run of digits of s that starts at i.
DigitsEnd(s, i) ==
    IF i <= Len(s) /\ IsDigit(charAt(s, i)) THEN DigitsEnd(s, i + 1) ELSE i

RECURSIVE BlankEnd(_, _)
\* The index after the longest run of white space of s that starts at i.
BlankEnd(s, i) ==
    IF i <= Len(s) /\ charAt(s, i) \in Blank THEN BlankEnd(s, i + 1) ELSE i

RECURSIVE DecimalValue(_)
\* The number a string of digits writes.
DecimalValue(digits) ==
    IF digits = "" THEN 0
    ELSE 10 * DecimalValue(SubSeq(digits, 1, Len(digits) - 1))
         + DigitValue(charAt(digits, Len(digits)))

\* parseInt(s): leading white space is skipped, then an optional sign and
\* the longest run of digits are read; NaN when there is no digit.
parseInt(s) ==
    LET t    == StringTrimStart(s)
        neg  == StartsWithAt(t, 1, "-")
        from == IF neg \/ StartsWithAt(t, 1, "+") THEN 2 ELSE 1
        to   == DigitsEnd(t, from)
    IN  IF to = from THEN NaN
        ELSE Num((IF neg THEN -1 ELSE 1) * DecimalValue(SubSeq(t, from, to - 1)))

RECURSIVE Pow10(_)
Pow10(k) == IF k = 0 THEN 1 ELSE 10 * Pow10(k - 1)

RECURSIVE ZeroPad(_, _)
\* n in decimal, with zeros in front up to `width` digits.
ZeroPad(n, width) ==
    IF width <= 1 THEN ToString(n)
    ELSE IF n < Pow10(width - 1) THEN "0" \o ZeroPad(n, width - 1)
    ELSE ToString(n)

\* toFixed that cuts the digits after the last one kept.
toFixedTruncating(num, den, digits) ==
    IF den = 0 THEN (IF num = 0 THEN "NaN" ELSE "Infinity")
    ELSE LET q == (num * Pow10(digits)) \div den
         IN  ToString(q \div Pow10(digits))
             \o (IF digits = 0 THEN "" ELSE "." \o ZeroPad(q % Pow10(digits), digits))

\* (num / den).toFixed(digits) for num >= 0 and den >= 0: the quotient to
\* the nearest multiple of 10^-digits, the larger one when two are equally
\* near; 0 / 0 is NaN and n / 0 is Infinity, which toFixed prints as such.
toFixed(num, den, digits) ==
    IF den = 0 THEN (IF num = 0 THEN "NaN" ELSE "Infinity")
    ELSE LET q == (2 * num * Pow10(digits) + den) \div (2 * den)
         IN  ToString(q \div Pow10(digits))
             \o (IF digits = 0 THEN "" ELSE "." \o ZeroPad(q % Pow10(digits), digits))

\* Array.prototype.sort with (a, b) => b.key - a.key, on the keys: the
\* indices in the order a stable sort puts them, largest key first.
RECURSIVE InsertByKey(_, _, _)
InsertByKey(order, i, keys) ==
    IF order = <<>> THEN <<i>>
    ELSE IF keys[Head(order)] >= keys[i]
    THEN <<Head(order)>> \o InsertByKey(Tail(order), i, keys)
    ELSE <<i>> \o order

RECURSIVE SortedOrder(_, _)
SortedOrder(keys, n) ==
    IF n = 0 THEN <<>> ELSE InsertByKey(SortedOrder(keys, n - 1), n, keys)

\* s sorted by keys, largest first.
SortDescending(s, keys) ==
    LET order == SortedOrder(keys, Len(s))
    IN  [k \in 1..Len(s) |-> s[order[k]]]

\* What execCommand returns for a subprocess that printed stdout
\* (utils.js 12-18): the trimmed text, or null when nothing is left.
ExecResult(stdout) ==
    IF StringTrim(stdout) = "" THEN Null ELSE Str(StringTrim(stdout))
---------------------------------------------------------------------------
(* The options of a run: parseCliArgs, getDateFilter, and the commands the *)
(* aggregators build from them.                                            *)

\* args.includes(a)
ArgIncludes(args, a) == \E k \in 1..Len(args) : args[k] = a

\* utils.js 128-145.  args is process.argv.slice(2).
parseCliArgs(args) ==
    LET found     == {k \in 1..Len(args) : args[k] = "--year"}
        yearIndex == IF found = {} THEN 0 ELSE Least(found)
        hasValue  == /\ yearIndex # 0
                     /\ yearIndex + 1 <= Len(args)
                     /\ args[yearIndex + 1] # ""
    IN  [ verbose |-> ArgIncludes(args, "--verbose"),
          year    |-> IF hasValue THEN parseInt(args[yearIndex + 1]) ELSE Null,
          allTime |-> ArgIncludes(args, "--all-time"),
          noEmoji |-> ArgIncludes(args, "--no-emoji"),
          minimal |-> ArgIncludes(args, "--minimal") ]

\* The options object a command-line run hands to the aggregators: what
\* parseCliArgs read, and allBranches, which is set unless
\* --current-branch-only is given.
CliOptions(args) ==
    parseCliArgs(args)
    @@ [ allBranches |-> ~ArgIncludes(args, "--current-branch-only"),
         since       |-> Undefined,
         until       |-> Undefined ]

\* getDateFilter that looks at since and until before year.
getDateFilterSinceFirst(options) ==
    IF Truthy(options.since) \/ Truthy(options.until)
    THEN StringTrim(
           (IF Truthy(options.since)
            THEN "--since=\"" \o options.since.text \o "\"" ELSE "")
           \o (IF Truthy(options.until)
               THEN " --until=\"" \o options.until.text \o "\"" ELSE ""))
    ELSE IF Truthy(options.year)
    THEN "--since=\"" \o ToString(options.year.n) \o "-01-01\" --until=\""
         \o ToString(options.year.n) \o "-12-31 23:59:59\""
    ELSE ""

\* utils.js 112-122
getDateFilter(options) ==
    IF Truthy(options.year)
    THEN "--since=\"" \o ToString(options.year.n) \o "-01-01\" --until=\""
         \o ToString(options.year.n) \o "-12-31 23:59:59\""
    ELSE IF Truthy(options.since) \/ Truthy(options.until)
    THEN StringTrim(
           (IF Truthy(options.since)
            THEN "--since=\"" \o options.since.text \o "\"" ELSE "")
           \o (IF Truthy(options.until)
               THEN " --until=\"" \o options.until.text \o "\"" ELSE ""))
    ELSE ""

\* part_000 10-15: the command of getStreakStats.
StreakQuery(options) ==
    "git log --format=\"%ai\" " \o (IF options.allBranches THEN "--all" ELSE "")
    \o " " \o getDateFilter(options) \o " | cut -d' ' -f1 | sort -u"

\* part_000 336
ContributorQuery(options) == "git shortlog -sn --all " \o getDateFilter(options)

\* What a function hands back: a value, or an exception that leaves it.
Return(v) == [threw |-> FALSE, value |-> v]
Throw(e) == [threw |-> TRUE, error |-> e]

---------------------------------------------------------------------------
(* Calendar dates as JavaScript reads and prints them.  A day is its       *)
(* number of days since 1970-01-01, an instant a number of hours.          *)

\* Days since 1970-01-01 of the civil date y-m-d.
DaysFromCivil(y, m, d) ==
    LET yy  == IF m <= 2 THEN y - 1 ELSE y
        era == yy \div 400
        yoe == yy - era * 400
        mp  == (m + 9) % 12
        doy == (153 * mp + 2) \div 5 + d - 1
        doe == yoe * 365 + yoe \div 4 - yoe \div 100 + doy
    IN  era * 146097 + doe - 719468

\* The civil date of a day number.
CivilFromDays(n) ==
    LET z   == n + 719468
        era == z \div 146097
        doe == z - era * 146097
        yoe == (doe - doe \div 1460 + doe \div 36524 - doe \div 146096) \div 365
        doy == doe - (365 * yoe + yoe \div 4 - yoe \div 100)
        mp  == (5 * doy + 2) \div 153
        m   == IF mp < 10 THEN mp + 3 ELSE mp - 9
    IN  [ y |-> yoe + era * 400 + (IF m <= 2 THEN 1 ELSE 0),
          m |-> m,
          d |-> doy - (153 * mp + 2) \div 5 + 1 ]

WeekdayNames ==
    <<"Sunday", "Monday", "Tuesday", "Wednesday", "Thursday", "Friday", "Saturday">>
MonthNames ==
    <<"January", "February", "March", "April", "May", "June", "July",
      "August", "September", "October", "November", "December">>

\* getDay() of a local day number: 1970-01-01 was a Thursday.
DayOfWeek(n) == (n + 4) % 7

AllDigits(s) == Len(s) > 0 /\ DigitsEnd(s, 1) = Len(s) + 1

\* The day number a "YYYY-MM-DD" text names; <<>> when it names none.
CivilDay(s) ==
    IF /\ Len(s) = 10
       /\ AllDigits(SubSeq(s, 1, 4)) /\ charAt(s, 5) = "-"
       /\ AllDigits(SubSeq(s, 6, 7)) /\ charAt(s, 8) = "-"
       /\ AllDigits(SubSeq(s, 9, 10))
    THEN LET y == DecimalValue(SubSeq(s, 1, 4))
             m == DecimalValue(SubSeq(s, 6, 7))
             d == DecimalValue(SubSeq(s, 9, 10))
             n == DaysFromCivil(y, m, d)
         IN  IF m \in 1..12 /\ d >= 1 /\ CivilFromDays(n) = [y |-> y, m |-> m, d |-> d]
             THEN <<n>>
             ELSE <<>>
    ELSE <<>>

\* new Date(s) for the texts git prints: "YYYY-MM-DD" is midnight UTC of
\* that day, "YYYY-MM-DD HH:MM:SS +HHMM" (%ai) is that wall time at that
\* offset; anything else is an Invalid Date.  A Date is [invalid |-> TRUE]
\* or an instant t in whole hours: the minutes and seconds are read and
\* dropped.
NewDate(s) ==
    IF Len(s) = 10
    THEN IF CivilDay(s) = <<>> THEN [invalid |-> TRUE]
         ELSE [invalid |-> FALSE, t |-> CivilDay(s)[1] * DayLen]
    ELSE IF /\ Len(s) = 25
            /\ CivilDay(SubSeq(s, 1, 10)) # <<>>
            /\ charAt(s, 11) = " "
            /\ AllDigits(SubSeq(s, 12, 13)) /\ charAt(s, 14) = ":"
            /\ AllDigits(SubSeq(s, 15, 16)) /\ charAt(s, 17) = ":"
            /\ AllDigits(SubSeq(s, 18, 19)) /\ charAt(s, 20) = " "
            /\ charAt(s, 21) \in {"+", "-"}
            /\ AllDigits(SubSeq(s, 22, 25))
            /\ DecimalValue(SubSeq(s, 12, 13)) < 24
    THEN LET wall == CivilDay(SubSeq(s, 1, 10))[1] * DayLen
                     + DecimalValue(SubSeq(s, 12, 13))
             east == (IF charAt(s, 21) = "-" THEN -1 ELSE 1)
                     * DecimalValue(SubSeq(s, 22, 23))
         IN  [invalid |-> FALSE, t |-> wall - east]
    ELSE [invalid |-> TRUE]

\* getHours() in the zone z
LocalHour(t, z) == (t + OffsetAt(t, z)) % DayLen

\* utils.js 33-44: formatDate in the zone z; the hour, minute and second
\* are "2-digit" in en-US.
formatDate(dateStr, z) ==
    LET date == NewDate(dateStr)
    IN  IF date.invalid THEN "Invalid Date"
        ELSE LET local == CivilFromDays(LocalDay(date.t, z))
                 h == LocalHour(date.t, z)
             IN  WeekdayNames[DayOfWeek(LocalDay(date.t, z)) + 1] \o ", "
                 \o MonthNames[local.m] \o " " \o ToString(local.d) \o ", "
                 \o ToString(local.y) \o " at "
                 \o ZeroPad(IF h % 12 = 0 THEN 12 ELSE h % 12, 2) \o ":00:00 "
                 \o (IF h < 12 THEN "AM" ELSE "PM")
---------------------------------------------------------------------------
(* Objects used as counters, and the reduce that finds the largest count.  *)

\* acc[key] = (acc[key] || 0) + 1 on the properties of acc, which are kept
\* in the order they were first set.
Bump(acc, key) ==
    IF \E k \in 1..Len(acc) : acc[k].key = key
    THEN [k \in 1..Len(acc) |->
            IF acc[k].key = key
            THEN [key |-> key, count |-> acc[k].count + 1]
            ELSE acc[k]]
    ELSE Append(acc, [key |-> key, count |-> 1])

\* A tally that opens a bucket for every key, equal to an earlier one or not.
TallyEach(keys) == [k \in 1..Len(keys) |-> [key |-> keys[k], count |-> 1]]

RECURSIVE Tally(_)
Tally(keys) ==
    IF keys = <<>> THEN <<>>
    ELSE Bump(Tally(SubSeq(keys, 1, Len(keys) - 1)), keys[Len(keys)])

\* Object.entries: the keys that are array indices ("0", "7", "1970") in
\* ascending order, then the other keys in the order they were set.
Entries(acc) ==
    LET IsIndexKey(key) == AllDigits(key) /\ (Len(key) = 1 \/ charAt(key, 1) # "0")
        index == SelectSeq(acc, LAMBDA e : IsIndexKey(e.key))
        other == SelectSeq(acc, LAMBDA e : ~IsIndexKey(e.key))
    IN  SortDescending(index, [k \in 1..Len(index) |-> 0 - DecimalValue(index[k].key)])
        \o other

RECURSIVE ReduceMax(_, _)
\* entries.reduce((max, [key, count]) => count > max.count ? ... : max, max)
ReduceMax(entries, max) ==
    IF entries = <<>> THEN max
    ELSE ReduceMax(Tail(entries),
                   IF Head(entries).count > max.count THEN Head(entries) ELSE max)

NoMax == [key |-> "", count |-> 0]

RECURSIVE Sum(_)
Sum(s) == IF s = <<>> THEN 0 ELSE Head(s) + Sum(Tail(s))

---------------------------------------------------------------------------
(* The aggregators of the statistics module.  Each takes what execCommand  *)
(* returned for its commands (null, or the trimmed text) and hands back    *)
(* Return(record) or Throw(error).                                         *)

\* /(\d+)\s+(.+)/ tried at index i of a line: digits, white space, and at
\* least one more character, the white space giving one back for it; <<>>
\* when it does not match there.
CountAndNameAt(s, i) ==
    LET d == DigitsEnd(s, i)
        b == BlankEnd(s, d)
        n == IF b <= Len(s) THEN b ELSE b - 1
    IN  IF d > i /\ n > d
        THEN <<[count |-> SubSeq(s, i, d - 1), name |-> SubSeq(s, n, Len(s))]>>
        ELSE <<>>

\* line.match(/(\d+)\s+(.+)/): the leftmost match.
MatchCountAndName(s) ==
    LET hits == {i \in 1..Len(s) : CountAndNameAt(s, i) # <<>>}
    IN  IF hits = {} THEN <<>> ELSE CountAndNameAt(s, Least(hits))

\* .filter((line) => line.trim())
NonBlankLines(text) ==
    SelectSeq(split(text, "\n"), LAMBDA line : StringTrim(line) # "")

\* A match that makes an entry, whatever its name is.
IsAnyMatch(m) == m # <<>>

\* part_000 309: match && match[2] !== "total"
IsFileMatch(m) == m # <<>> /\ m[1].name # "total"

\* part_000 320: fileStats.slice(0, 10)
LargestFilesKept == 10

\* part_000 289-326
getLineStats(totalLOC, fileStatsOutput) ==
    IF ~Truthy(fileStatsOutput)
    THEN Return([totalLOC |-> Num(0), largestFiles |-> <<>>])
    ELSE LET lines == NonBlankLines(fileStatsOutput.text)
             found == [k \in 1..Len(lines) |-> MatchCountAndName(StringTrim(lines[k]))]
             kept  == SelectSeq(found, IsFileMatch)
             stats == [k \in 1..Len(kept) |->
                         [lines |-> parseInt(kept[k][1].count), file |-> kept[k][1].name]]
             fileStats == SortDescending(stats, [k \in 1..Len(stats) |-> stats[k].lines.n])
         IN  Return([ totalLOC     |-> IF Truthy(totalLOC) THEN parseInt(totalLOC.text)
                                       ELSE Num(0),
                      largestFiles |->
                          SubSeq(fileStats, 1,
                                 IF Len(fileStats) < LargestFilesKept
                                 THEN Len(fileStats) ELSE LargestFilesKept) ])

\* The name is the second field alone.
ContributorNameSecondField(parts) == IF Len(parts) > 1 THEN parts[2] ELSE ""

\* part_000 344-345: const [commits, ...nameParts]; nameParts.join("\t")
ContributorName(parts) == Join(Tail(parts), "\t")

\* getContributorStats with no test of the output.
getContributorStatsUnguarded(output) ==
    IF "text" \notin DOMAIN output THEN Throw("TypeError")
    ELSE LET lines == NonBlankLines(output.text)
         IN  Return([k \in 1..Len(lines) |->
                       LET parts == split(StringTrim(lines[k]), "\t")
                       IN  [name |-> ContributorName(parts), commits |-> parseInt(parts[1])]])

\* part_000 334-347
getContributorStats(output) ==
    IF ~Truthy(output) THEN Return(<<>>)
    ELSE LET lines == NonBlankLines(output.text)
         IN  Return([k \in 1..Len(lines) |->
                       LET parts == split(StringTrim(lines[k]), "\t")
                       IN  [name |-> ContributorName(parts), commits |-> parseInt(parts[1])]])

\* part_000 595-618
getFileChurnStats(output) ==
    IF ~Truthy(output) THEN Return(<<>>)
    ELSE LET lines == NonBlankLines(output.text)
             found == [k \in 1..Len(lines) |-> MatchCountAndName(StringTrim(lines[k]))]
             kept  == SelectSeq(found, LAMBDA m : m # <<>>)
         IN  Return([k \in 1..Len(kept) |->
                       [file |-> kept[k][1].name, changes |-> parseInt(kept[k][1].count)]])

\* (?:, (\d+) word s?sign)? tried at index p: the digits it captured, or
\* undefined, and where the match goes on.
OptionalClause(s, p, word, sign) ==
    LET d == p + 2
        e == DigitsEnd(s, d)
        w == e + Len(word)
        x == IF StartsWithAt(s, w, "s") /\ StartsWithAt(s, w + 1, sign) THEN w + 1 ELSE w
    IN  IF /\ StartsWithAt(s, p, ", ")
           /\ e > d
           /\ StartsWithAt(s, e, word)
           /\ StartsWithAt(s, x, sign)
        THEN [text |-> Str(SubSeq(s, d, e - 1)), next |-> x + Len(sign)]
        ELSE [text |-> Undefined, next |-> p]

\* part_000 528-530 tried at index i of a line:
\* /(\d+) files? changed(?:, (\d+) insertions?\(\+\))?(?:, (\d+) deletions?\(-\))?/
CommitSummaryAt(s, i) ==
    LET d == DigitsEnd(s, i)
        f == d + Len(" file")
        g == IF StartsWithAt(s, f, "s") /\ StartsWithAt(s, f + 1, " changed")
             THEN f + 1 ELSE f
        ins == OptionalClause(s, g + Len(" changed"), " insertion", "(+)")
        del == OptionalClause(s, ins.next, " deletion", "(-)")
    IN  IF d > i /\ StartsWithAt(s, d, " file") /\ StartsWithAt(s, g, " changed")
        THEN <<[ filesChanged |-> Str(SubSeq(s, i, d - 1)),
                 insertions   |-> ins.text,
                 deletions    |-> del.text ]>>
        ELSE <<>>

MatchCommitSummary(s) ==
    LET hits == {i \in 1..Len(s) : CommitSummaryAt(s, i) # <<>>}
    IN  IF hits = {} THEN <<>> ELSE CommitSummaryAt(s, Least(hits))

\* part_000 522-540: the sizes of the commits, one for each summary line;
\* a group that did not take part counts as parseInt(group || 0).
CommitSizes(text) ==
    LET GroupOrZero(group) == IF Truthy(group) THEN parseInt(group.text) ELSE Num(0)
        lines == SelectSeq(split(text, "\n"),
                           LAMBDA line : includes(line, "files changed")
                                         \/ includes(line, "file changed"))
        found == SelectSeq([k \in 1..Len(lines) |-> MatchCommitSummary(lines[k])],
                           LAMBDA m : m # <<>>)
    IN  [k \in 1..Len(found) |->
           [ filesChanged |-> GroupOrZero(found[k][1].filesChanged).n,
             insertions   |-> GroupOrZero(found[k][1].insertions).n,
             deletions    |-> GroupOrZero(found[k][1].deletions).n ]]

NoCommitSizes == [avgFilesChanged |-> Num(0), avgInsertions |-> Num(0), avgDeletions |-> Num(0)]

\* The averages over one commit more than there are.
AverageOverOneMore(values) == Str(toFixed(Sum(values), Len(values) + 1, 2))

\* part_000 546-554: (sum / commitSizes.length).toFixed(2)
Average(values) == Str(toFixed(Sum(values), Len(values), 2))

\* part_000 514-557
getCommitSizeStats(output) ==
    IF ~Truthy(output) THEN Return(NoCommitSizes)
    ELSE LET commitSizes == CommitSizes(output.text)
             n == Len(commitSizes)
         IN  IF n = 0 THEN Return(NoCommitSizes)
             ELSE Return(
                    [ avgFilesChanged |-> Average([k \in 1..n |-> commitSizes[k].filesChanged]),
                      avgInsertions   |-> Average([k \in 1..n |-> commitSizes[k].insertions]),
                      avgDeletions    |-> Average([k \in 1..n |-> commitSizes[k].deletions]) ])

\* utils.js 152-155: /\.([^.]+)$/, lower-cased; "" when there is no match.
getFileExtension(filePath) ==
    LET dots == Occurrences(filePath, ".")
        last == CHOOSE i \in dots : \A j \in dots : j <= i
    IN  IF dots = {} THEN ""
        ELSE IF last = Len(filePath) THEN ""
        ELSE toLowerCase(SubSeq(filePath, last + 1, Len(filePath)))

\* utils.js 163-213
languageMap ==
    [ js |-> "JavaScript", jsx |-> "JavaScript", ts |-> "TypeScript",
      tsx |-> "TypeScript", py |-> "Python", java |-> "Java", cpp |-> "C++",
      c |-> "C", h |-> "C/C++ Header", hpp |-> "C++ Header", cs |-> "C#",
      rb |-> "Ruby", go |-> "Go", rs |-> "Rust", php |-> "PHP",
      swift |-> "Swift", kt |-> "Kotlin", scala |-> "Scala", html |-> "HTML",
      css |-> "CSS", scss |-> "SCSS", sass |-> "Sass", less |-> "Less",
      vue |-> "Vue", svelte |-> "Svelte", json |-> "JSON", xml |-> "XML",
      yaml |-> "YAML", yml |-> "YAML", md |-> "Markdown", sql |-> "SQL",
      sh |-> "Shell", bash |-> "Bash", zsh |-> "Zsh", fish |-> "Fish",
      r |-> "R", m |-> "Objective-C", mm |-> "Objective-C++", dart |-> "Dart",
      lua |-> "Lua", pl |-> "Perl", ex |-> "Elixir", exs |-> "Elixir",
      erl |-> "Erlang", clj |-> "Clojure", elm |-> "Elm", hs |-> "Haskell",
      ml |-> "OCaml", vb |-> "Visual Basic" ]

\* languageMap is an object literal: a name it does not define itself is
\* looked up in Object.prototype, whose methods and accessors these are.
ObjectPrototype ==
    { "constructor", "__proto__", "hasOwnProperty", "isPrototypeOf",
      "propertyIsEnumerable", "toLocaleString", "toString", "valueOf",
      "__defineGetter__", "__defineSetter__", "__lookupGetter__",
      "__lookupSetter__" }

\* languageMap[ext]: the label, or what Object.prototype has under that
\* name (a function, or for __proto__ the prototype object itself), or
\* undefined.
Lookup(ext) ==
    IF ext \in DOMAIN languageMap THEN Str(languageMap[ext])
    ELSE IF ext \in ObjectPrototype THEN [inherited |-> ext]
    ELSE Undefined

\* utils.js 215: languageMap[ext] || ext.toUpperCase()
extensionToLanguage(ext) ==
    IF Truthy(Lookup(ext)) THEN Lookup(ext) ELSE Str(toUpperCase(ext))

\* The property name a value makes: a string itself, a function its source
\* text, an object "[object Object]".
PropertyKey(v) ==
    IF "text" \in DOMAIN v THEN v.text
    ELSE IF v.inherited = "__proto__" THEN "[object Object]"
    ELSE IF v.inherited = "constructor" THEN "function Object() { [native code] }"
    ELSE "function " \o v.inherited \o "() { [native code] }"

\* part_000 564-587
getLanguageStats(filesOutput) ==
    IF ~Truthy(filesOutput) THEN Return([languages |-> <<>>, totalFiles |-> 0])
    ELSE LET files == split(filesOutput.text, "\n")
             withExt == SelectSeq(files, LAMBDA file : getFileExtension(file) # "")
             languageStats ==
                 Tally([k \in 1..Len(withExt) |->
                          PropertyKey(extensionToLanguage(getFileExtension(withExt[k])))])
             entries == Entries(languageStats)
             languages == [k \in 1..Len(entries) |->
                             [language |-> entries[k].key, count |-> entries[k].count]]
         IN  Return([ languages  |-> SortDescending(languages,
                                        [k \in 1..Len(languages) |-> languages[k].count]),
                      totalFiles |-> Len(files) ])

\* part_000 223-282.  out holds what execCommand returned for each command;
\* out.firstCommitDetails and out.lastCommitDetails are read only when the
\* hash they are asked for is there, and the date is their first word.
getBasicStats(out) ==
    LET CommitDate(hash, details) ==
            IF Truthy(hash) /\ Truthy(details)
            THEN Str(split(details.text, " ")[1]) ELSE Null
    IN
    Return(
      [ firstCommitDate |-> CommitDate(out.firstCommitHash, out.firstCommitDetails),
        lastCommitDate  |-> CommitDate(out.lastCommitHash, out.lastCommitDetails),
        numCommits      |-> IF Truthy(out.numCommits)
                            THEN parseInt(out.numCommits.text) ELSE Num(0),
        numBranches     |-> IF Truthy(out.numBranches)
                            THEN parseInt(StringTrim(out.numBranches.text)) ELSE Num(0),
        numPullRequests |-> IF Truthy(out.numPullRequests)
                            THEN parseInt(StringTrim(out.numPullRequests.text)) ELSE Num(0),
        numContributors |-> IF Truthy(out.numContributors)
                            THEN parseInt(StringTrim(out.numContributors.text)) ELSE Num(0) ])

\* The commands getBasicStats runs, in order; getCommitDetails (part_000
\* 211-215) shows the commit of the first line of the hash.
BasicQueries(options, out) ==
    LET dateFilter == getDateFilter(options)
        CommitDetailsQuery(commitHash) ==
            "git show -s --format=\"%ci %h %an\" "
            \o (IF includes(commitHash, "\n") THEN split(commitHash, "\n")[1]
                ELSE commitHash)
    IN  << "git rev-list --max-parents=0 HEAD " \o dateFilter,
           "git rev-list -n 1 HEAD " \o dateFilter >>
        \o (IF Truthy(out.firstCommitHash)
            THEN <<CommitDetailsQuery(StringTrim(out.firstCommitHash.text))>> ELSE <<>>)
        \o (IF Truthy(out.lastCommitHash)
            THEN <<CommitDetailsQuery(StringTrim(out.lastCommitHash.text))>> ELSE <<>>)
        \o << "git rev-list --count HEAD " \o dateFilter,
              "git branch -a | wc -l",
              "git log --oneline --grep=\"Merge pull request\" " \o dateFilter \o " | wc -l",
              "git shortlog -sn " \o dateFilter \o " | wc -l" >>

\* part_000 366-369: the date of each line of the log.
CommitTimes(text) ==
    [k \in 1..Len(split(text, "\n")) |->
       LET parts == split(split(text, "\n")[k], "|")
       IN  IF Len(parts) < 2 THEN [invalid |-> TRUE] ELSE NewDate(parts[2])]

TimeBlockNames ==
    << "Late Night (00:00-03:59)", "Early Morning (04:00-07:59)",
       "Morning (08:00-11:59)", "Afternoon (12:00-15:59)",
       "Evening (16:00-19:59)", "Night (20:00-23:59)" >>

\* The block of a date that has an hour, and none for one that has not.
TimeBlockOfValid(date, z) ==
    IF date.invalid THEN 0 ELSE LocalHour(date.t, z) \div 4 + 1

\* part_000 402-410: the block of a date; NaN fails every test and is Night.
TimeBlock(date, z) ==
    IF date.invalid THEN 6
    ELSE LET h == LocalHour(date.t, z)
         IN  IF h >= 0 /\ h < 4 THEN 1
             ELSE IF h >= 4 /\ h < 8 THEN 2
             ELSE IF h >= 8 /\ h < 12 THEN 3
             ELSE IF h >= 12 /\ h < 16 THEN 4
             ELSE IF h >= 16 /\ h < 20 THEN 5
             ELSE 6

\* A weekend that is Saturday alone.
IsSaturday(date, z) == ~date.invalid /\ DayOfWeek(LocalDay(date.t, z)) = 6

\* part_000 415-419: day === 0 || day === 6
IsWeekend(date, z) ==
    ~date.invalid /\ DayOfWeek(LocalDay(date.t, z)) \in {0, 6}

\* part_000 355-427, on a machine in the zone z.  HourKey is getHours() as
\* the property name it makes, WeekdayKey is toLocaleDateString("en-US",
\* { weekday: "long" }).
getTimeBasedStats(output, z) ==
    IF ~Truthy(output)
    THEN Return([ mostActiveHour |-> [hour |-> Num(0), count |-> 0],
                  weekdayCommits |-> <<>> ])
    ELSE LET commitTimes == CommitTimes(output.text)
             n == Len(commitTimes)
             HourKey(date) ==
                 IF date.invalid THEN "NaN" ELSE ToString(LocalHour(date.t, z))
             WeekdayKey(date) ==
                 IF date.invalid THEN "Invalid Date"
                 ELSE WeekdayNames[DayOfWeek(LocalDay(date.t, z)) + 1]
             Count(Test(_)) == Len(SelectSeq(commitTimes, Test))
             hourlyCommits == Tally([k \in 1..n |-> HourKey(commitTimes[k])])
             most == ReduceMax(Entries(hourlyCommits), NoMax)
         IN  Return(
               [ mostActiveHour |-> IF most = NoMax THEN [hour |-> Num(0), count |-> 0]
                                    ELSE [hour |-> parseInt(most.key), count |-> most.count],
                 weekdayCommits |-> Entries(Tally([k \in 1..n |-> WeekdayKey(commitTimes[k])])),
                 timeBlocks |->
                     [b \in 1..Len(TimeBlockNames) |->
                        [ key   |-> TimeBlockNames[b],
                          count |-> Count(LAMBDA d : TimeBlock(d, z) = b) ]],
                 weekendVsWeekday |->
                     [ weekend |-> Count(LAMBDA d : IsWeekend(d, z)),
                       weekday |-> Count(LAMBDA d : ~IsWeekend(d, z)) ] ])

NoFrequency ==
    [ maxDay   |-> [date |-> "", count |-> 0],
      maxMonth |-> [date |-> "", count |-> 0],
      maxYear  |-> [date |-> "", count |-> 0],
      avgCommitsPerMonth |-> Num(0),
      avgCommitsPerDay   |-> Num(0) ]

\* part_000 435-506, on a machine in the zone z.  A part of the date that
\* is not there prints as "undefined" in `${year}-${month}`; the label of a
\* month is formatDate(fullDate).split(",")[1].trim(), which throws when
\* the formatted date has no comma, at each entry where the reduce takes a
\* new maximum.
getCommitFrequencyStats(output, z) ==
    IF ~Truthy(output) THEN Return(NoFrequency)
    ELSE LET commitDates == split(output.text, "\n")
             PartOr(parts, i) == IF i <= Len(parts) THEN parts[i] ELSE "undefined"
             NewMaxima(entries) ==
                 {k \in 1..Len(entries) :
                    \A j \in 1..(k - 1) : entries[j].count < entries[k].count}
             MonthLabel(key) == StringTrim(split(formatDate(key \o "-01", z), ",")[2])
             dated == SelectSeq(commitDates, LAMBDA date : date # "")
             fullDate == [k \in 1..Len(dated) |-> split(dated[k], " ")[1]]
             ymd == [k \in 1..Len(dated) |-> split(fullDate[k], "-")]
             dayStats == Entries(Tally(fullDate))
             monthStats == Entries(Tally([k \in 1..Len(dated) |->
                                            PartOr(ymd[k], 1) \o "-" \o PartOr(ymd[k], 2)]))
             yearStats == Entries(Tally([k \in 1..Len(dated) |-> PartOr(ymd[k], 1)]))
             maxDay == ReduceMax(dayStats, NoMax)
             maxMonth == ReduceMax(monthStats, NoMax)
             maxYear == ReduceMax(yearStats, NoMax)
         IN  IF \E k \in NewMaxima(monthStats) :
                   Len(split(formatDate(monthStats[k].key \o "-01", z), ",")) < 2
             THEN Throw("TypeError")
             ELSE Return(
                    [ maxDay   |-> IF maxDay = NoMax THEN NoFrequency.maxDay
                                    ELSE [ date  |-> formatDate(maxDay.key, z),
                                           count |-> maxDay.count ],
                      maxMonth |-> IF maxMonth = NoMax THEN NoFrequency.maxMonth
                                    ELSE [ date  |-> MonthLabel(maxMonth.key),
                                           count |-> maxMonth.count ],
                      maxYear  |-> [date |-> maxYear.key, count |-> maxYear.count],
                      avgCommitsPerMonth |->
                          IF Len(monthStats) > 0
                          THEN Str(toFixed(Len(commitDates), Len(monthStats), 2)) ELSE Num(0),
                      avgCommitsPerDay |->
                          IF Len(dayStats) > 0
                          THEN Str(toFixed(Len(commitDates), Len(dayStats), 2)) ELSE Num(0) ])
---------------------------------------------------------------------------
(* Calls of the aggregators.  arg holds the options of the run and what    *)
(* git and wc printed; ret holds the record the aggregator returned and    *)
(* the commands it ran.  A command that fails and a command that prints    *)
(* nothing both make execCommand return null.  verbose only makes          *)
(* execCommand log, and is left out.                                       *)

\* The command line has at most MaxArgs arguments.
MaxArgs == 3
\* A command prints at most MaxLines lines that vary.
MaxLines == 3

\* The runs whose options vary: a command line and the options made of it,
\* or a caller that gives a year, a since and an until or leaves them out.
Runs ==
    LET ArgWords == {"--year", "2024", "--current-branch-only", "x"}
    IN  {[args |-> a, options |-> CliOptions(a)] : a \in SeqsUpTo(ArgWords, MaxArgs)}
        \cup { [ args    |-> <<>>,
                 options |-> [CliOptions(<<>>) EXCEPT !.year = y, !.since = s, !.until = u] ] :
                 y \in {Null, Num(2023)},
                 s \in {Undefined, Str("2023-03-01")},
                 u \in {Undefined, Str("2023-06-30")} }

DefaultRun == [args |-> <<>>, options |-> CliOptions(<<>>)]

\* What execCommand returns when the subprocess prints these lines.
Printed(lines) == ExecResult(Join(lines, "\n") \o "\n")

\* wc -l prints the count right-aligned, a space and the name; with more
\* than one file it ends with a line for the total, once for each batch of
\* files xargs hands it.  A line of the listing is its text and the entry
\* it is for, if any.  Padding is nine more files of two lines each, so
\* that more files are listed than are kept.
LineStatsCalls ==
    LET File(lead, count, name) ==
            [ text  |-> lead \o ToString(count) \o " " \o name,
              entry |-> <<[lines |-> count, file |-> name]>> ]
        Samples ==
            { File("  ", 1, "a.js"), File("", 3, "b c.md"), File(" ", 12, "total.txt"),
              File(" ", 12, "total"), File("  ", 3, "total"),
              [text |-> "wc: d: Is a directory", entry |-> <<>>] }
        Padding ==
            [k \in 1..(LargestFilesKept - 1) |-> File("  ", 2, "p" \o ToString(k) \o ".c")]
        Listings ==
            { pre \o mid \o post :
                pre \in {<<>>, Padding}, post \in {<<>>, Padding},
                mid \in SeqsUpTo(Samples, MaxLines) }
    IN  { [ fn |-> "getLineStats", listing |-> l,
            out |-> [ totalLOC        |-> t,
                      fileStatsOutput |-> Printed([k \in 1..Len(l) |-> l[k].text]) ] ] :
            l \in Listings, t \in {Null, Str("17")} }

\* git shortlog -sn prints the count right-aligned, a tab and the name.  A
\* line of the output is its text and the author it is for, if any.
ContributorCalls ==
    LET Author(lead, count, name) ==
            [ text   |-> lead \o ToString(count) \o "\t" \o name,
              author |-> <<[name |-> name, commits |-> count]>> ]
        Samples ==
            { Author("    ", 12, "Al"), Author("     ", 3, "Bo\tJr"),
              Author("", 3, "A\tB\tC d"), Author(" ", 1, "e 2"),
              [text |-> "x", author |-> <<>>], [text |-> " ", author |-> <<>>] }
    IN  { [ fn |-> "getContributorStats", run |-> DefaultRun, authors |-> a,
            output |-> Printed([k \in 1..Len(a) |-> a[k].text]) ] :
            a \in SeqsUpTo(Samples, MaxLines) }
        \cup { [ fn |-> "getContributorStats", run |-> r, authors |-> a,
                 output |-> Printed([k \in 1..Len(a) |-> a[k].text]) ] :
                 r \in Runs, a \in {<<>>, <<Author("", 2, "y")>>} }

\* The lines of git log --stat --oneline, and the sizes the lines that are
\* commit summaries give.
CommitSizeCalls ==
    LET Samples ==
            { [ text |-> " 3 files changed, 10 insertions(+), 2 deletions(-)",
                size |-> <<[filesChanged |-> 3, insertions |-> 10, deletions |-> 2]>> ],
              [ text |-> " 1 file changed, 1 insertion(+)",
                size |-> <<[filesChanged |-> 1, insertions |-> 1, deletions |-> 0]>> ],
              [ text |-> " 2 files changed, 1 deletion(-)",
                size |-> <<[filesChanged |-> 2, insertions |-> 0, deletions |-> 1]>> ],
              [ text |-> " 1 file changed",
                size |-> <<[filesChanged |-> 1, insertions |-> 0, deletions |-> 0]>> ],
              [ text |-> "a1b2c3d one file changed", size |-> <<>> ],
              [ text |-> "e4f5a6b 2 files changed in api",
                size |-> <<[filesChanged |-> 2, insertions |-> 0, deletions |-> 0]>> ],
              [ text |-> " src/a.js | 12 ++++++------", size |-> <<>> ] }
    IN  { [ fn |-> "getCommitSizeStats", run |-> DefaultRun, log |-> l,
            output |-> Printed([k \in 1..Len(l) |-> l[k].text]) ] :
            l \in SeqsUpTo(Samples, MaxLines) }
        \cup { [ fn |-> "getCommitSizeStats", run |-> r, log |-> l,
                 output |-> Printed([k \in 1..Len(l) |-> l[k].text]) ] :
                 r \in Runs,
                 l \in {<<>>} \cup {<<s>> : s \in {t \in Samples : t.text = " 1 file changed"}} }

\* Paths git ls-files prints, each with its extension.
LanguageCalls ==
    LET Samples ==
            { [path |-> "src/a.ts", ext |-> "ts"], [path |-> "b.JS", ext |-> "js"],
              [path |-> "Makefile", ext |-> ""], [path |-> "lib/c.xyz", ext |-> "xyz"],
              [path |-> ".gitignore", ext |-> "gitignore"], [path |-> "d.tar.", ext |-> ""],
              [path |-> "e.7", ext |-> "7"], [path |-> "f.constructor", ext |-> "constructor"] }
    IN  { [ fn |-> "getLanguageStats", files |-> f,
            filesOutput |-> Printed([k \in 1..Len(f) |-> f[k].path]) ] :
            f \in SeqsUpTo(Samples, MaxLines) }

\* The extensions of the table, the names of Object.prototype, and some
\* that are neither.
ExtensionCalls ==
    { [fn |-> "extensionToLanguage", ext |-> e] :
        e \in DOMAIN languageMap \cup ObjectPrototype \cup {"xyz", "7", "b/c", "tar"} }

\* Lines of git log --format="%H|%ai", each with the instant it names, if
\* it names one.
TimeCalls ==
    LET Commit(text, d, h) == [text |-> text, at |-> <<d * DayLen + h>>]
        Samples ==
            { Commit("a1|1970-01-02 09:00:00 +0000", 1, 9),
              Commit("b2|1970-01-03 23:00:00 +0000", 2, 23),
              Commit("c3|1970-01-04 21:00:00 -0500", 4, 2),
              Commit("d4|1970-01-02 09:30:00 +0200", 1, 7),
              [text |-> "e5", at |-> <<>>] }
        Logs == SeqsUpTo(Samples, MaxLines)
                \cup {[k \in 1..10 |-> Commit("a1|1970-01-02 09:00:00 +0000", 1, 9)]}
    IN  { [ fn |-> "getTimeBasedStats", run |-> DefaultRun, zone |-> z, log |-> l,
            output |-> Printed([k \in 1..Len(l) |-> l[k].text]) ] :
            l \in Logs, z \in TimeZones }
        \cup { [ fn |-> "getTimeBasedStats", run |-> r,
                 zone |-> [off |-> 0, delta |-> 0, at |-> 0], log |-> l,
                 output |-> Printed([k \in 1..Len(l) |-> l[k].text]) ] :
                 r \in Runs,
                 l \in {<<>>, <<Commit("a1|1970-01-02 09:00:00 +0000", 1, 9)>>} }

\* Lines of git log --format="%ai", each with the civil date it starts
\* with, if it starts with one.
FrequencyCalls ==
    LET Commit(text, y, m, d) == [text |-> text, date |-> <<[y |-> y, m |-> m, d |-> d]>>]
        Samples ==
            { Commit("1970-01-02 09:00:00 +0000", 1970, 1, 2),
              Commit("1970-01-02 23:00:00 -0500", 1970, 1, 2),
              Commit("1970-01-03 12:00:00 +0000", 1970, 1, 3),
              Commit("1970-02-01 00:00:00 +0200", 1970, 2, 1),
              Commit("1969-12-31 10:00:00 +0000", 1969, 12, 31),
              [text |-> "", date |-> <<>>],
              [text |-> "x", date |-> <<>>] }
    IN  { [ fn |-> "getCommitFrequencyStats", run |-> DefaultRun, zone |-> z, log |-> l,
            output |-> Printed([k \in 1..Len(l) |-> l[k].text]) ] :
            l \in SeqsUpTo(Samples, MaxLines),
            z \in {[off |-> 0, delta |-> 0, at |-> 0], [off |-> -5, delta |-> 0, at |-> 0]} }
        \cup { [ fn |-> "getCommitFrequencyStats", run |-> r,
                 zone |-> [off |-> 0, delta |-> 0, at |-> 0], log |-> l,
                 output |-> Printed([k \in 1..Len(l) |-> l[k].text]) ] :
                 r \in Runs,
                 l \in {<<>>, <<Commit("1970-01-02 09:00:00 +0000", 1970, 1, 2)>>} }

\* Lines of git log --name-only | sort | uniq -c | sort -rn
ChurnCalls ==
    LET Samples == {"     12 src/a.js", "      3 b c.md", "      1 7"}
    IN  { [fn |-> "getFileChurnStats", run |-> DefaultRun, output |-> Printed(l)] :
            l \in SeqsUpTo(Samples, MaxLines) }
        \cup { [fn |-> "getFileChurnStats", run |-> r, output |-> o] :
                 r \in Runs, o \in {Null, Str("2 a")} }

\* What each command of getBasicStats may have printed: any combination
\* for the default options, all or none for the others.
BasicCalls ==
    LET Outputs ==
            [ firstCommitHash    : {Null, Str("a1b2c3d\ne4f5a6b")},
              firstCommitDetails : {Null, Str("2023-01-15 10:00:00 +0000 a1b2c3d Al")},
              lastCommitHash     : {Null, Str("0f9e8d7")},
              lastCommitDetails  : {Null, Str("2024-02-29 23:00:00 -0500 0f9e8d7 Bo Jr")},
              numCommits         : {Null, Str("42")},
              numBranches        : {Null, Str("3")},
              numPullRequests    : {Null, Str("0")},
              numContributors    : {Null, Str("2")} ]
        AllOrNone ==
            {o \in Outputs : \A f \in DOMAIN o, g \in DOMAIN o : (o[f] = Null) = (o[g] = Null)}
    IN  {[fn |-> "getBasicStats", run |-> DefaultRun, out |-> o] : o \in Outputs}
        \cup {[fn |-> "getBasicStats", run |-> r, out |-> o] : r \in Runs, o \in AllOrNone}

\* A history of getStreakStats in a run of the aggregators has at most
\* MaxHistory lines.
MaxHistory == 2

\* A call of an aggregator or of extensionToLanguage, or a run of
\* getStreakStats, whose command is StreakQuery(arg.run.options).
StatsInit ==
    \/ /\ StreakAtRest
       /\ arg \in BasicCalls \cup LineStatsCalls \cup ContributorCalls \cup TimeCalls
                  \cup FrequencyCalls \cup CommitSizeCalls \cup LanguageCalls
                  \cup ChurnCalls \cup ExtensionCalls
       /\ ret = NoCall
    \/ /\ tz = [off |-> 0, delta |-> 0, at |-> 0]
       /\ now \in StartInstants
       /\ \/ /\ arg \in {[fn |-> "getStreakStats", run |-> r] : r \in Runs}
             /\ gitOk = FALSE
             /\ commits = <<>>
          \/ /\ arg = [fn |-> "getStreakStats", run |-> DefaultRun]
             /\ gitOk \in BOOLEAN
             /\ commits \in SeqsUpTo(Days, MaxHistory)
       /\ pc = "idle"
       /\ sk = NoLocals
       /\ result = ZeroRecord
       /\ prev = NoPrev
       /\ ret = NoCall

\* display.js 210-263: what displayTimeAnalysis prints of the most active
\* hour and of the weekend share, which it prints only when the record has
\* weekendVsWeekday.
displayTimeAnalysis(timeStats) ==
    [ mostActiveHour |->
          (IF timeStats.mostActiveHour.hour.nan THEN "NaN"
           ELSE ToString(timeStats.mostActiveHour.hour.n)) \o ":00",
      weekendPercentage |->
          IF "weekendVsWeekday" \in DOMAIN timeStats
          THEN Str(toFixed(100 * timeStats.weekendVsWeekday.weekend,
                           timeStats.weekendVsWeekday.weekday
                           + timeStats.weekendVsWeekday.weekend, 1))
          ELSE Undefined ]

\* What a call leaves in ret.
Outcome(r, commands) ==
    IF r.threw
    THEN [raised |-> TRUE, error |-> r.error, commands |-> commands]
    ELSE [raised |-> FALSE, value |-> r.value, commands |-> commands]

CallGetBasicStats ==
    /\ arg.fn = "getBasicStats"
    /\ ret = NoCall
    /\ ret' = Outcome(getBasicStats(arg.out), BasicQueries(arg.run.options, arg.out))
    /\ UNCHANGED <<streakVars, arg>>

CallGetLineStats ==
    /\ arg.fn = "getLineStats"
    /\ ret = NoCall
    /\ ret' = Outcome(getLineStats(arg.out.totalLOC, arg.out.fileStatsOutput),
                      << "git ls-files | xargs wc -l 2>/dev/null | tail -n 1 | awk '{print $1}'",
                         "git ls-files | xargs wc -l 2>/dev/null" >>)
    /\ UNCHANGED <<streakVars, arg>>

CallGetContributorStats ==
    /\ arg.fn = "getContributorStats"
    /\ ret = NoCall
    /\ ret' = Outcome(getContributorStats(arg.output),
                      <<ContributorQuery(arg.run.options)>>)
    /\ UNCHANGED <<streakVars, arg>>

CallGetTimeBasedStats ==
    /\ arg.fn = "getTimeBasedStats"
    /\ ret = NoCall
    /\ ret' = Outcome(getTimeBasedStats(arg.output, arg.zone),
                      <<"git log --format=\"%H|%ai\" " \o getDateFilter(arg.run.options)>>)
    /\ UNCHANGED <<streakVars, arg>>

CallGetCommitFrequencyStats ==
    /\ arg.fn = "getCommitFrequencyStats"
    /\ ret = NoCall
    /\ ret' = Outcome(getCommitFrequencyStats(arg.output, arg.zone),
                      <<"git log --format=\"%ai\" " \o getDateFilter(arg.run.options)>>)
    /\ UNCHANGED <<streakVars, arg>>

CallGetCommitSizeStats ==
    /\ arg.fn = "getCommitSizeStats"
    /\ ret = NoCall
    /\ ret' = Outcome(getCommitSizeStats(arg.output),
                      <<"git log --stat --oneline " \o getDateFilter(arg.run.options)>>)
    /\ UNCHANGED <<streakVars, arg>>

CallGetLanguageStats ==
    /\ arg.fn = "getLanguageStats"
    /\ ret = NoCall
    /\ ret' = Outcome(getLanguageStats(arg.filesOutput), <<"git ls-files">>)
    /\ UNCHANGED <<streakVars, arg>>

CallGetFileChurnStats ==
    /\ arg.fn = "getFileChurnStats"
    /\ ret = NoCall
    /\ ret' = Outcome(getFileChurnStats(arg.output), << "git log --name-only --format=\"\" " \o getDateFilter(arg.run.options)
                         \o " | sort | uniq -c | sort -rn | head -20" >>)
    /\ UNCHANGED <<streakVars, arg>>

\* displayTimeAnalysis on the record getTimeBasedStats returned.
DisplayTimeAnalysis ==
    /\ arg.fn = "getTimeBasedStats"
    /\ ret # NoCall
    /\ "shown" \notin DOMAIN ret
    /\ ret' = [shown |-> displayTimeAnalysis(ret.value)] @@ ret
    /\ UNCHANGED <<streakVars, arg>>

CallExtensionToLanguage ==
    /\ arg.fn = "extensionToLanguage"
    /\ ret = NoCall
    /\ ret' = [value |-> extensionToLanguage(arg.ext)]
    /\ UNCHANGED <<streakVars, arg>>

StatsNext ==
    \/ CallGetBasicStats
    \/ CallGetLineStats
    \/ CallGetContributorStats
    \/ CallGetTimeBasedStats
    \/ DisplayTimeAnalysis
    \/ CallGetCommitFrequencyStats
    \/ CallGetCommitSizeStats
    \/ CallGetLanguageStats
    \/ CallGetFileChurnStats
    \/ CallExtensionToLanguage
    \/ GetStreakStats
    \/ ScanStep
    \/ Finish

StatsSpec == StatsInit /\ [][StatsNext]_vars
---------------------------------------------------------------------------
(* The program of index.js, which has its own execCommand and aggregators: *)
(* a run of getGitWrapped.  arg.fails holds the commands that fail in the  *)
(* run; ret holds the sections printed so far and how the process ended.   *)

\* At most MaxFailures commands fail in a run.
MaxFailures == 2

\* index.js 281-299, 23, 136, 147, 181, 107-112: the commands of a run, by
\* the name of what they are asked for; git rev-list --count HEAD is run
\* for numCommits and again by getCommitFrequencyStats (230).
CliInit ==
    /\ StreakAtRest
    /\ LET Commands ==
               { "firstCommitHash", "firstCommitDetails", "lastCommitHash",
                 "lastCommitDetails", "numCommits", "numBranches", "numPullRequests",
                 "numContributors", "remoteUrl", "contributors", "commitDates",
                 "commitTimes", "totalLOC", "fileStats" }
       IN  arg \in { [fn |-> "getGitWrapped", fails |-> f] :
                       f \in {g \in SUBSET Commands : Cardinality(g) <= MaxFailures} }
    /\ ret = [at |-> "start", shown |-> <<>>, exit |-> "running"]

\* An uncaught TypeError ends the process with a failure.
CliCrash == [ret EXCEPT !.at = "end", !.exit = 1]

\* index.js 281-332: the hashes and details of the first and last commit
\* are used with no test (283, 285, 289, 290); the counts are printed as
\* execCommand returned them, a null as "null".
CliOverview ==
    /\ arg.fn = "getGitWrapped"
    /\ ret.at = "start"
    /\ ret' =
         LET CliText(c, text) == IF c \in arg.fails THEN "null" ELSE text
         IN IF arg.fails \cap {"firstCommitHash", "firstCommitDetails",
                                  "lastCommitHash", "lastCommitDetails"} # {}
              THEN CliCrash
              ELSE [ret EXCEPT
                      !.at = "overview",
                      !.shown = Append(@,
                        [ section    |-> "Repository History",
                          repository |-> IF "remoteUrl" \in arg.fails THEN "unknown"
                                         ELSE "gitwrapped",
                          numCommits      |-> CliText("numCommits", "42"),
                          numPullRequests |-> CliText("numPullRequests", "0"),
                          numBranches     |-> CliText("numBranches", "3"),
                          numContributors |-> CliText("numContributors", "2") ])]
    /\ UNCHANGED <<streakVars, arg>>

\* index.js 336-339: getContributorStats (136-137), getCommitFrequencyStats
\* (181), getTimeBasedStats (147-148) and getLineStats (112-113) call split
\* on what execCommand returned, with no test.
CliCollect ==
    /\ arg.fn = "getGitWrapped"
    /\ ret.at = "overview"
    /\ ret' = IF arg.fails \cap {"contributors", "commitDates", "commitTimes",
                                  "fileStats"} # {}
              THEN CliCrash
              ELSE [ret EXCEPT !.at = "collected"]
    /\ UNCHANGED <<streakVars, arg>>

\* index.js 341-399: the sections are printed; totalLOC.toLocaleString()
\* (350) is called with no test, after the contributors are printed; the
\* averages are parseInt(numCommits) over the months and days (235-236).
CliShow ==
    /\ arg.fn = "getGitWrapped"
    /\ ret.at = "collected"
    /\ ret' = IF "totalLOC" \in arg.fails
              THEN [CliCrash EXCEPT
                      !.shown = Append(@, [section |-> "Contributor Statistics"])]
              ELSE [ret EXCEPT
                      !.at = "end",
                      !.exit = 0,
                      !.shown = @ \o
                        << [section |-> "Contributor Statistics"],
                           [section |-> "Code Size Statistics"],
                           [section |-> "Largest Files by Line Count"],
                           [ section |-> "Commit Frequency Analysis",
                             avgCommitsPerMonth |->
                                 IF "numCommits" \in arg.fails THEN "NaN"
                                 ELSE toFixed(42, 2, 2),
                             avgCommitsPerDay |->
                                 IF "numCommits" \in arg.fails THEN "NaN"
                                 ELSE toFixed(42, 4, 2) ],
                           [section |-> "Time-Based Analysis"] >>]
    /\ UNCHANGED <<streakVars, arg>>

CliNext == CliOverview \/ CliCollect \/ CliShow

CliSpec == CliInit /\ [][CliNext]_vars

---------------------------------------------------------------------------
(* The streak claims.  The days of the history, and the runs of            *)
(* consecutive days in it, stated on the day numbers themselves.           *)

DaySet == {commits[k] : k \in 1..Len(commits)}

\* The command printed at least one day.
HasDays == gitOk /\ commits # <<>>

\* getStreakStats has returned the record of this run.
Returned == pc = "done"

\* Every day from a to b is a day of the history.
IsRun(a, b) == a <= b /\ \A d \in a..b : d \in DaySet

SetMax(S) == CHOOSE x \in S : \A y \in S : y <= x
SetMin(S) == CHOOSE x \in S : \A y \in S : x <= y

\* The length of the longest run, the first day of the earliest run of that
\* length, and the length of the run that ends on day b.
LongestRun == SetMax({x[2] - x[1] + 1 : x \in {y \in DaySet \X DaySet : IsRun(y[1], y[2])}})
LongestRunStart == SetMin({a \in DaySet : IsRun(a, a + LongestRun - 1)})
RunEndingAt(b) == SetMax({b - a + 1 : a \in {x \in DaySet : IsRun(x, b)}})

\* 'today' and the most recent active day, as calendar days.
Today == LocalDay(now, tz)
LastDay == SetMax(DaySet)

\* C1: for a non-empty history, longestStreak is the length of the longest
\* run of consecutive days, and longestStreakStart and longestStreakEnd are
\* the first and the last day of the earliest run of that length.
C1_LongestRunAndRange ==
    (Returned /\ HasDays) =>
        /\ result.longestStreak = LongestRun
        /\ result.longestStreakStart = DateKey(LongestRunStart)
        /\ result.longestStreakEnd = DateKey(LongestRunStart + LongestRun - 1)

\* C2: for a non-empty history, currentStreak is 0 when the most recent
\* active day is more than one calendar day before today, and otherwise the
\* length of the run of consecutive days that ends on that day.
C2_CurrentStreak ==
    (Returned /\ HasDays) =>
        result.currentStreak =
            IF Today - LastDay > 1 THEN 0 ELSE RunEndingAt(LastDay)

\* C3: totalActiveDays is the number of distinct days of the commit list,
\* and a history that is one run of k consecutive days, however many
\* commits each day has, has a longest streak of k.
C3_DuplicatesDoNotCount ==
    (Returned /\ HasDays) =>
        /\ result.totalActiveDays = Cardinality(DaySet)
        /\ IsRun(SetMin(DaySet), SetMax(DaySet)) =>
               result.longestStreak = Cardinality(DaySet)

\* C4: longestStreak is at least 1 when the command printed a day, and is 0
\* only when it printed none.
C4_LongestAtLeastOne ==
    Returned =>
        /\ HasDays => result.longestStreak >= 1
        /\ result.longestStreak = 0 => ~HasDays

\* C4's case: a history of several days, none next to another, returned.
C4_Witness ==
    /\ Returned /\ HasDays
    /\ Cardinality(DaySet) >= 2
    /\ result.longestStreak = 1

\* C6: when the command fails or prints no day, the record is all zero:
\* both streaks and totalActiveDays 0, both dates null, no milestone.
C6_ZeroRecordOnNoDates ==
    (Returned /\ ~HasDays) =>
        /\ result.currentStreak = 0
        /\ result.longestStreak = 0
        /\ result.totalActiveDays = 0
        /\ result.longestStreakStart = NullDate
        /\ result.longestStreakEnd = NullDate
        /\ result.streakMilestones = <<>>

\* C6's case: the command failed on a history that has commits, after a
\* run that had returned.
C6_Witness ==
    /\ Returned /\ ~gitOk /\ commits # <<>>
    /\ result.longestStreak = 0

---------------------------------------------------------------------------
(* The claims about the pure functions.                                    *)

Called(fn) == arg # NoCall /\ arg.fn = fn /\ ret # NoCall

\* The ladder of the milestones, lowest threshold first.
Ladder ==
    << [name |-> "Week Warrior", min |-> 7],
       [name |-> "Month Master", min |-> 30],
       [name |-> "Century Club", min |-> 100],
       [name |-> "Year Legend",  min |-> 365] >>

\* C5: streakMilestones is the prefix of the ladder whose thresholds
\* longestStreak reaches, in ladder order, every one of them included; it is
\* empty below 7, and [Week Warrior, Month Master] for 45.
C5_MilestonesArePrefixOfLadder ==
    Called("streakMilestones") =>
        LET n == arg.longestStreak
            reached == {j \in 1..Len(Ladder) : n >= Ladder[j].min}
        IN  /\ Len(ret.value) = Cardinality(reached)
            /\ \A j \in 1..Len(ret.value) :
                  j \in reached /\ ret.value[j] = Ladder[j].name
            /\ n < 7 => ret.value = <<>>
            /\ n = 45 => ret.value = <<"Week Warrior", "Month Master">>

\* C5's case: a streak that reaches two thresholds and not the third.
C5_Witness ==
    /\ Called("streakMilestones")
    /\ arg.longestStreak = 45
    /\ Len(ret.value) = 2

\* C7: formatDuration(d, d) is "0 seconds".
C7_ZeroSpanIsZeroSeconds ==
    (Called("formatDuration") /\ arg.startDate = arg.endDate) =>
        ret.value = "0 seconds"

\* C7's case: a call with the same date, not the epoch, as start and end.
C7_Witness ==
    /\ Called("formatDuration")
    /\ arg.startDate = arg.endDate
    /\ arg.startDate.d > 0

\* A span of exactly n days.
SpansDays(n) ==
    /\ arg.endDate.d - arg.startDate.d = n
    /\ arg.endDate.ms = arg.startDate.ms

\* C8: formatDuration of a span of exactly 90 days is "3 months".
C8_NinetyDaysIsThreeMonths ==
    (Called("formatDuration") /\ SpansDays(90)) => ret.value = "3 months"

\* The seconds in a day.
DaySeconds == day \div second

\* C9: each component is the whole number of its unit in what is left of
\* the span after the larger units were taken out, and the components, each
\* times the length of its unit, add up to the span in whole seconds.
C9_ComponentsAddUpToSpan ==
    Called("formatDuration") =>
        LET c     == ret.locals
            total == MillisBetween(arg.endDate, arg.startDate)
            afterYears  == total.d % year
            afterMonths == afterYears % month
        IN  /\ c.years = total.d \div year
            /\ c.months = afterYears \div month
            /\ c.weeks = afterMonths \div week
            /\ c.days = afterMonths % week
            /\ (c.years * year + c.months * month + c.weeks * week + c.days) * DaySeconds
                 + c.hours * (hour \div second) + c.minutes * (minute \div second)
                 + c.seconds
               = total.d * DaySeconds + total.ms \div second

AllWhitespace(s) == \A k \in 1..Len(s) : s[k] \in Whitespace

\* C10: execCommand returns null or a non-empty string that neither starts
\* nor ends with whitespace; output that trims to nothing and a failed
\* subprocess both give null; without verbose no exception leaves it.
C10_NullOrTrimmedText ==
    Called("execCommand") =>
        /\ \/ ret.value = Null
           \/ /\ ~ret.value.null
              /\ Len(ret.value.text) > 0
              /\ ret.value.text[1] \notin Whitespace
              /\ ret.value.text[Len(ret.value.text)] \notin Whitespace
        /\ arg.outcome.threw => ret.value = Null
        /\ (~arg.outcome.threw /\ AllWhitespace(arg.outcome.stdout)) => ret.value = Null
        /\ ~arg.verbose => ~ret.raised

\* C10's case: output with whitespace on both sides of its text, trimmed.
C10_Witness ==
    /\ Called("execCommand")
    /\ ~arg.verbose
    /\ ~arg.outcome.threw
    /\ arg.outcome.stdout = <<" ", "a", "b", "\n">>
    /\ ret.value = Str(<<"a", "b">>)

\* C11: when the subprocess fails, execCommand re-raises the failure if
\* verbose was requested, and returns null (raising nothing) if it was not.
C11_VerboseReRaises ==
    (Called("execCommand") /\ arg.outcome.threw) =>
        IF arg.verbose
        THEN ret.raised
        ELSE ~ret.raised /\ ret.value = Null

---------------------------------------------------------------------------
(* The aggregator claims, under StatsSpec.                                 *)

\* getStreakStats has returned in a run of the aggregators.
StreakReturned == arg # NoCall /\ arg.fn = "getStreakStats" /\ pc = "done"

\* What each field of the time statistics holds when there is no commit.
TimeDefaults ==
    [ mostActiveHour   |-> [hour |-> Num(0), count |-> 0],
      weekdayCommits   |-> <<>>,
      timeBlocks       |-> [b \in 1..Len(TimeBlockNames) |->
                              [key |-> TimeBlockNames[b], count |-> 0]],
      weekendVsWeekday |-> [weekend |-> 0, weekday |-> 0] ]

WritesNearest(text, num, den, digits) ==
    LET parts == split(text, ".")
    IN  /\ Len(parts) = 2
        /\ AllDigits(parts[1]) /\ AllDigits(parts[2])
        /\ Len(parts[2]) = digits
        /\ Len(parts[1]) = 1 \/ charAt(parts[1], 1) # "0"
        /\ LET q == DecimalValue(parts[1] \o parts[2])
                d == Pow10(digits) * num - q * den
           IN  2 * (IF d < 0 THEN 0 - d ELSE d) <= den

\* The sizes of the commits whose summary lines are in the log of the call.
RECURSIVE SizesOf(_)
SizesOf(log) == IF log = <<>> THEN <<>> ELSE Head(log).size \o SizesOf(Tail(log))

\* C14: getCommitSizeStats returns the all-zero record when no line of the
\* output is a commit summary, also when the command fails, and divides by
\* nothing; otherwise each average is the sum of its field over the summary
\* lines divided by their number, written with two decimals, a clause that
\* is not there counting as 0.
C14_AveragesOverMatchedLines ==
    Called("getCommitSizeStats") =>
        LET sizes == SizesOf(arg.log)
            n == Len(sizes)
            Avg(field) == CASE field = "filesChanged" -> ret.value.avgFilesChanged
                            [] field = "insertions"   -> ret.value.avgInsertions
                            [] field = "deletions"    -> ret.value.avgDeletions
        IN  /\ ~ret.raised
            /\ n = 0 => ret.value = [ avgFilesChanged |-> Num(0),
                                      avgInsertions   |-> Num(0),
                                      avgDeletions    |-> Num(0) ]
            /\ n > 0 =>
                 \A field \in {"filesChanged", "insertions", "deletions"} :
                    /\ "text" \in DOMAIN Avg(field)
                    /\ WritesNearest(Avg(field).text,
                                     Sum([k \in 1..n |-> sizes[k][field]]), n, 2)

\* getCommitSizeStats has returned the averages of two commits from a log
\* of three lines, one of which is no summary.
C14_Witness ==
    /\ Called("getCommitSizeStats")
    /\ Len(arg.log) = 3
    /\ Len(SizesOf(arg.log)) = 2
    /\ ~ret.raised
    /\ ret.value = [ avgFilesChanged |-> Str("2.50"),
                     avgInsertions   |-> Str("5.00"),
                     avgDeletions    |-> Str("1.50") ]

\* getStreakStats has run its command in a run of the aggregators.
StreakQueried == arg # NoCall /\ arg.fn = "getStreakStats" /\ pc # "idle"

\* C15: with --current-branch-only the contributor query and the streak
\* query are run without the all-branches flag, and without it they are run
\* with the flag.
C15_CurrentBranchOnlyRestricts ==
    LET restricted == ArgIncludes(arg.run.args, "--current-branch-only")
    IN  /\ Called("getContributorStats") =>
             (includes(ret.commands[1], " --all ") <=> ~restricted)
        /\ StreakQueried =>
             (includes(StreakQuery(arg.run.options), " --all ") <=> ~restricted)

\* --since and --until of the whole of the year y
Window(y) ==
    "--since=\"" \o ToString(y) \o "-01-01\" --until=\"" \o ToString(y)
    \o "-12-31 23:59:59\""

\* The commands of the call that read the history of commits.
HistoryQueries ==
    SelectSeq(IF arg.fn = "getStreakStats" THEN <<StreakQuery(arg.run.options)>>
              ELSE ret.commands,
              LAMBDA c : \/ StartsWithAt(c, 1, "git rev-list")
                         \/ StartsWithAt(c, 1, "git log")
                         \/ StartsWithAt(c, 1, "git shortlog"))

\* An aggregator that takes filter options has run its commands.
FilteredCall ==
    \/ StreakQueried
    \/ \E fn \in { "getBasicStats", "getContributorStats", "getTimeBasedStats",
                    "getCommitFrequencyStats", "getCommitSizeStats",
                    "getFileChurnStats" } : Called(fn)

\* C16: when options.year is set, every aggregator that takes filter
\* options runs its history queries with the window of that year and with
\* no other since or until; when neither year nor since nor until is set,
\* getDateFilter returns "" and the queries have no window.
C16_YearWindow ==
    FilteredCall =>
        LET options == arg.run.options
            queries == HistoryQueries
        IN  /\ Len(queries) >= 1
            /\ Truthy(options.year) =>
                 \A k \in 1..Len(queries) :
                    /\ includes(queries[k], " " \o Window(options.year.n))
                    /\ Cardinality(Occurrences(queries[k], "--since")) = 1
                    /\ Cardinality(Occurrences(queries[k], "--until")) = 1
            /\ (~Truthy(options.year) /\ ~Truthy(options.since) /\ ~Truthy(options.until)) =>
                 /\ getDateFilter(options) = ""
                 /\ \A k \in 1..Len(queries) :
                       ~includes(queries[k], "--since") /\ ~includes(queries[k], "--until")

\* getBasicStats has run for the year 2023 with a since option given as
\* well, and its first command has the window of 2023.
C16_Witness ==
    /\ Called("getBasicStats")
    /\ arg.run.options.year = Num(2023)
    /\ Truthy(arg.run.options.since)
    /\ ret.commands[1] = "git rev-list --max-parents=0 HEAD --since=\"2023-01-01\" --until=\"2023-12-31 23:59:59\""
    /\ Len(HistoryQueries) = 5

\* The label the table gives an extension, or the extension in upper case.
LabelOf(ext) ==
    IF ext \in DOMAIN languageMap THEN languageMap[ext] ELSE toUpperCase(ext)

\* C17: extensionToLanguage gives an extension of the table its label and
\* any other extension the extension in upper case; getLanguageStats counts
\* each file that has an extension once, under the language of its
\* extension, and returns the languages by count, largest first.
C17_ExtensionToLanguage ==
    /\ Called("extensionToLanguage") => ret.value = Str(LabelOf(arg.ext))
    /\ Called("getLanguageStats") =>
         LET withExt == SelectSeq(arg.files, LAMBDA f : f.ext # "")
             labels == {LabelOf(withExt[k].ext) : k \in 1..Len(withExt)}
             languages == IF arg.filesOutput = Null THEN <<>> ELSE ret.value.languages
         IN  /\ ~ret.raised
             /\ {languages[k].language : k \in 1..Len(languages)} = labels
             /\ Len(languages) = Cardinality(labels)
             /\ \A k \in 1..Len(languages) :
                   languages[k].count =
                     Len(SelectSeq(withExt, LAMBDA f : LabelOf(f.ext) = languages[k].language))
             /\ \A k \in 1..(Len(languages) - 1) :
                   languages[k].count >= languages[k + 1].count

\* displayTimeAnalysis has shown time statistics that have weekend and
\* weekday counts.
WeekendShown ==
    /\ Called("getTimeBasedStats")
    /\ "shown" \in DOMAIN ret
    /\ "weekendVsWeekday" \in DOMAIN ret.value

\* C18: the weekend percentage displayTimeAnalysis shows is
\* 100 * weekend / (weekend + weekday) written with exactly one digit after
\* the point; for weekend = 0 and weekday = 10 it is "0.0".
C18_WeekendPercentage ==
    WeekendShown =>
        LET weekend == ret.value.weekendVsWeekday.weekend
            weekday == ret.value.weekendVsWeekday.weekday
            shown   == ret.shown.weekendPercentage
        IN  /\ "text" \in DOMAIN shown
            /\ WritesNearest(shown.text, 100 * weekend, weekend + weekday, 1)
            /\ (weekend = 0 /\ weekday = 10) => shown.text = "0.0"

\* Ten weekday commits and none at the weekend have been shown.
C18_Witness ==
    /\ WeekendShown
    /\ ret.value.weekendVsWeekday = [weekend |-> 0, weekday |-> 10]
    /\ ret.shown.weekendPercentage = Str("0.0")

\* The per-file entries of the listing of the call: one for each line that
\* is a count and a name other than "total", with the count as a number.
FilesListed ==
    LET RECURSIVE Entries_(_)
        Entries_(l) ==
            IF l = <<>> THEN <<>>
            ELSE (IF Head(l).entry # <<>> /\ Head(l).entry[1].file # "total"
                  THEN <<[lines |-> Num(Head(l).entry[1].lines),
                          file  |-> Head(l).entry[1].file]>>
                  ELSE <<>>)
                 \o Entries_(Tail(l))
    IN  Entries_(arg.listing)

\* How many times e occurs in s.
TimesIn(s, e) == Cardinality({k \in 1..Len(s) : s[k] = e})

\* C19: largestFiles has at most 10 entries, in non-increasing order of
\* line count; they are the 10 largest per-file entries of the output (all
\* of them when there are fewer), and none is made from a line whose name
\* part is "total", however many such lines there are.
C19_LargestFiles ==
    Called("getLineStats") =>
        LET files   == FilesListed
            largest == ret.value.largestFiles
            n       == Len(largest)
        IN  /\ ~ret.raised
            /\ n <= 10
            /\ n = (IF Len(files) < 10 THEN Len(files) ELSE 10)
            /\ \A k \in 1..(n - 1) : largest[k].lines.n >= largest[k + 1].lines.n
            /\ \A k \in 1..n : largest[k].file # "total"
            /\ \A k \in 1..n : TimesIn(largest, largest[k]) <= TimesIn(files, largest[k])
            /\ \A k \in 1..Len(files) :
                  TimesIn(largest, files[k]) < TimesIn(files, files[k])
                    => files[k].lines.n <= largest[n].lines.n

\* More than 10 files and two "total" lines were listed, and a file was
\* left out.
C19_Witness ==
    /\ Called("getLineStats")
    /\ Len(FilesListed) > 10
    /\ Len(ret.value.largestFiles) = 10
    /\ Cardinality({k \in 1..Len(arg.listing) :
                       arg.listing[k].entry # <<>>
                       /\ arg.listing[k].entry[1].file = "total"}) = 2
    /\ ret.value.largestFiles[1] = [lines |-> Num(12), file |-> "total.txt"]
    /\ \E k \in 1..Len(FilesListed) :
          TimesIn(ret.value.largestFiles, FilesListed[k]) < TimesIn(FilesListed, FilesListed[k])

\* The lines of the shortlog of the call that are not blank.
AuthorLines == SelectSeq(arg.authors, LAMBDA l : StringTrim(l.text) # "")

\* C20: for each line of the output that is a count, a tab and a name,
\* getContributorStats returns a record with that count and with the whole
\* of the line after the first tab as the name, later tabs included; the
\* records are in the order of the lines.
C20_ContributorRecords ==
    Called("getContributorStats") =>
        /\ ~ret.raised
        /\ Len(ret.value) = Len(AuthorLines)
        /\ \A k \in 1..Len(AuthorLines) :
              AuthorLines[k].author # <<>> =>
                  ret.value[k] = [ name    |-> AuthorLines[k].author[1].name,
                                   commits |-> Num(AuthorLines[k].author[1].commits) ]

\* Two authors whose names have tabs in them, after a blank line, have
\* been returned in the order of their lines.
C20_Witness ==
    /\ Called("getContributorStats")
    /\ Len(arg.authors) = 3
    /\ arg.authors[1].text = " "
    /\ ret.value = << [name |-> "A\tB\tC d", commits |-> Num(3)],
                      [name |-> "Bo\tJr", commits |-> Num(3)] >>

\* The local hours of the commits of the log of the call, in log order;
\* a line that names no instant has none.
HoursLogged ==
    LET timed == SelectSeq(arg.log, LAMBDA l : l.at # <<>>)
    IN  [k \in 1..Len(timed) |-> LocalHour(timed[k].at[1], arg.zone)]

\* The largest count of equal elements of s, and the element with that
\* count that comes first in s.
MostFrequent(s) ==
    LET most  == CHOOSE c \in 1..Len(s) :
                    /\ \E k \in 1..Len(s) : TimesIn(s, s[k]) = c
                    /\ \A k \in 1..Len(s) : TimesIn(s, s[k]) <= c
        first == CHOOSE k \in 1..Len(s) :
                    /\ TimesIn(s, s[k]) = most
                    /\ \A j \in 1..(k - 1) : TimesIn(s, s[j]) < most
    IN  [key |-> s[first], count |-> most]

\* C21: mostActiveHour is an hour with the largest number of commits, with
\* that number as its count; of several such hours it is the one that
\* comes first in the log.
C21_MostActiveHour ==
    (Called("getTimeBasedStats") /\ HoursLogged # <<>>) =>
        /\ ~ret.raised
        /\ ret.value.mostActiveHour =
             [ hour  |-> Num(MostFrequent(HoursLogged).key),
               count |-> MostFrequent(HoursLogged).count ]

\* The civil dates of the log of the call, in log order, when every line
\* of the log starts with one; <<>> otherwise.
DatesLogged ==
    IF \A k \in 1..Len(arg.log) : arg.log[k].date # <<>>
    THEN [k \in 1..Len(arg.log) |-> arg.log[k].date[1]]
    ELSE <<>>

\* C22: maxDay, maxMonth and maxYear name the day, the month and the year
\* with the largest number of commits, each with that number as its count;
\* of several that tie it is the one that comes first in the log, for days,
\* months and years alike.
C22_FrequencyMaxima ==
    (Called("getCommitFrequencyStats") /\ DatesLogged # <<>>) =>
        LET dates == DatesLogged
            topDay   == MostFrequent(dates)
            topMonth == MostFrequent([k \in 1..Len(dates) |-> [y |-> dates[k].y, m |-> dates[k].m]])
            topYear  == MostFrequent([k \in 1..Len(dates) |-> dates[k].y])
        IN  /\ ~ret.raised
            /\ ret.value.maxDay.count = topDay.count
            /\ includes(ret.value.maxDay.date,
                        MonthNames[topDay.key.m] \o " " \o ToString(topDay.key.d)
                        \o ", " \o ToString(topDay.key.y))
            /\ ret.value.maxMonth.count = topMonth.count
            /\ includes(ret.value.maxMonth.date, MonthNames[topMonth.key.m])
            /\ ret.value.maxYear = [date |-> ToString(topYear.key), count |-> topYear.count]

\* The number a two-decimal text writes, in hundredths.
Hundredths(text) ==
    LET parts == split(text, ".")
    IN  100 * DecimalValue(parts[1]) + DecimalValue(parts[2])

\* C23: avgCommitsPerMonth is the number of commits over the number of
\* distinct months and avgCommitsPerDay the number of commits over the
\* number of distinct days, both 0 when there is no bucket (nothing is
\* divided by zero); with at least one commit,
\* avgCommitsPerMonth >= avgCommitsPerDay >= 1.
C23_FrequencyAverages ==
    /\ (Called("getCommitFrequencyStats") /\ arg.log = <<>>) =>
         /\ ~ret.raised
         /\ ret.value.avgCommitsPerMonth = Num(0)
         /\ ret.value.avgCommitsPerDay = Num(0)
    /\ (Called("getCommitFrequencyStats") /\ DatesLogged # <<>>) =>
         LET dates  == DatesLogged
             n      == Len(dates)
             days   == Cardinality({dates[k] : k \in 1..n})
             months == Cardinality({[y |-> dates[k].y, m |-> dates[k].m] : k \in 1..n})
             perMonth == ret.value.avgCommitsPerMonth
             perDay   == ret.value.avgCommitsPerDay
         IN  /\ ~ret.raised
             /\ "text" \in DOMAIN perMonth /\ "text" \in DOMAIN perDay
             /\ WritesNearest(perMonth.text, n, months, 2)
             /\ WritesNearest(perDay.text, n, days, 2)
             /\ Hundredths(perMonth.text) >= Hundredths(perDay.text)
             /\ Hundredths(perDay.text) >= 100

\* Three commits on two days of one month have been averaged.
C23_Witness ==
    /\ Called("getCommitFrequencyStats")
    /\ Len(DatesLogged) = 3
    /\ ret.value.avgCommitsPerMonth = Str("3.00")
    /\ ret.value.avgCommitsPerDay = Str("1.50")

\* The instants of the commits of the log of the call, when every line of
\* the log names one; <<>> otherwise.
InstantsLogged ==
    IF \A k \in 1..Len(arg.log) : arg.log[k].at # <<>>
    THEN [k \in 1..Len(arg.log) |-> arg.log[k].at[1]]
    ELSE <<>>

\* The count the record of the call has for a key of a tally.
CountFor(tally, key) ==
    LET found == SelectSeq(tally, LAMBDA e : e.key = key)
    IN  IF found = <<>> THEN 0 ELSE found[1].count

\* C24: every commit is in exactly one of the six 4-hour blocks, the block
\* numbered h div 4 for a commit at local hour h, and is counted as weekend
\* exactly when its local weekday is Saturday or Sunday, as weekday
\* otherwise.
C24_BlocksAndWeekend ==
    (Called("getTimeBasedStats") /\ InstantsLogged # <<>>) =>
        LET at == InstantsLogged
            z  == arg.zone
            In(Test(_)) == Cardinality({k \in 1..Len(at) : Test(at[k])})
        IN  /\ ~ret.raised
            /\ Len(ret.value.timeBlocks) = 6
            /\ \A b \in 1..6 :
                 /\ ret.value.timeBlocks[b].key = TimeBlockNames[b]
                 /\ ret.value.timeBlocks[b].count =
                      In(LAMBDA t : LocalHour(t, z) \div 4 = b - 1)
            /\ ret.value.weekendVsWeekday.weekend =
                 In(LAMBDA t : WeekdayNames[DayOfWeek(LocalDay(t, z)) + 1]
                                 \in {"Saturday", "Sunday"})
            /\ ret.value.weekendVsWeekday.weekend + ret.value.weekendVsWeekday.weekday
                 = Len(at)

\* Three commits in three blocks have been counted, one of them made on a
\* Monday in UTC that is a Sunday's commit in the zone of the machine.
C24_Witness ==
    /\ Called("getTimeBasedStats")
    /\ Len(InstantsLogged) = 3
    /\ arg.zone = [off |-> -5, delta |-> 0, at |-> 0]
    /\ ret.value.weekendVsWeekday = [weekend |-> 2, weekday |-> 1]
    /\ CountFor(ret.value.timeBlocks, "Early Morning (04:00-07:59)") = 1
    /\ CountFor(ret.value.timeBlocks, "Evening (16:00-19:59)") = 1
    /\ CountFor(ret.value.timeBlocks, "Night (20:00-23:59)") = 1

\* The sum of the counts of a tally.
TallyTotal(tally) == Sum([k \in 1..Len(tally) |-> tally[k].count])

\* C25: a line of the output that does not have the form the aggregator
\* reads is left out: it makes no record and adds to no bucket, in the line
\* statistics, the contributors, the time buckets, the frequency buckets,
\* the commit sizes and the file churn, and no error is raised.
C25_UnmatchedLinesDropped ==
    /\ Called("getLineStats") =>
         /\ ~ret.raised
         /\ Len(ret.value.largestFiles)
              <= Len(SelectSeq(arg.listing, LAMBDA l : l.entry # <<>>))
    /\ Called("getContributorStats") =>
         /\ ~ret.raised
         /\ Len(ret.value) = Len(SelectSeq(arg.authors, LAMBDA l : l.author # <<>>))
    /\ (Called("getTimeBasedStats") /\ arg.output # Null) =>
         LET timed == Len(SelectSeq(arg.log, LAMBDA l : l.at # <<>>))
         IN  /\ ~ret.raised
             /\ TallyTotal(ret.value.timeBlocks) = timed
             /\ TallyTotal(ret.value.weekdayCommits) = timed
             /\ ret.value.weekendVsWeekday.weekend + ret.value.weekendVsWeekday.weekday
                  = timed
             /\ ret.value.mostActiveHour.count <= timed
    /\ Called("getCommitFrequencyStats") =>
         LET dated == Len(SelectSeq(arg.log, LAMBDA l : l.date # <<>>))
         IN  /\ ~ret.raised
             /\ ret.value.maxDay.count <= dated
             /\ ret.value.maxMonth.count <= dated
             /\ ret.value.maxYear.count <= dated
    /\ Called("getCommitSizeStats") => ~ret.raised
    /\ Called("getFileChurnStats") => ~ret.raised

\* C30: a record of getTimeBasedStats has weekendVsWeekday exactly when
\* the command gave output, and then weekend + weekday, the sum of the six
\* time blocks and the sum of weekdayCommits are all the number of lines of
\* the output, at least 1: the percentage displayTimeAnalysis shows never
\* divides by zero, and none is computed when the command failed.
C30_CountsConserved ==
    Called("getTimeBasedStats") =>
        /\ ~ret.raised
        /\ "weekendVsWeekday" \in DOMAIN ret.value <=> arg.output # Null
        /\ arg.output # Null =>
             LET n == Len(split(arg.output.text, "\n"))
             IN  /\ n >= 1
                 /\ n = Len(arg.log)
                 /\ ret.value.weekendVsWeekday.weekend
                      + ret.value.weekendVsWeekday.weekday = n
                 /\ TallyTotal(ret.value.timeBlocks) = n
                 /\ TallyTotal(ret.value.weekdayCommits) = n
                 /\ "shown" \in DOMAIN ret =>
                      /\ "text" \in DOMAIN ret.shown.weekendPercentage
                      /\ ret.shown.weekendPercentage.text \notin {"NaN", "Infinity"}
        /\ (arg.output = Null /\ "shown" \in DOMAIN ret) =>
             ret.shown.weekendPercentage = Undefined

\* Three lines, one of them without a date, have been counted and shown.
C30_Witness ==
    /\ Called("getTimeBasedStats")
    /\ "shown" \in DOMAIN ret
    /\ Len(arg.log) = 3
    /\ \E k \in 1..3 : arg.log[k].at = <<>>
    /\ ret.value.weekendVsWeekday = [weekend |-> 1, weekday |-> 2]
    /\ TallyTotal(ret.value.timeBlocks) = 3
    /\ ret.shown.weekendPercentage = Str("33.3")

---------------------------------------------------------------------------
(* The remaining streak claims, under StreakSpec.                          *)

\* C26: in every record getStreakStats returns, whatever the history and
\* whatever 'today' is, currentStreak <= longestStreak <= totalActiveDays.
C26_StreakOrdering ==
    Returned =>
        /\ result.currentStreak <= result.longestStreak
        /\ result.longestStreak <= result.totalActiveDays

\* A record whose last run is still going on and is the longest: the
\* comparison after the scan took it.
C26_Witness ==
    /\ Returned /\ HasDays
    /\ result.currentStreak >= 2
    /\ result.currentStreak = result.longestStreak
    /\ result.longestStreak < result.totalActiveDays

\* C27: in every record of a history with days, longestStreakStart and
\* longestStreakEnd are days of the history, and longestStreakEnd is
\* longestStreak - 1 days after longestStreakStart, in every time zone and
\* whether the longest run is the first run or a later one.
C27_RangeSpansLongest ==
    (Returned /\ HasDays) =>
        /\ result.longestStreakStart # NullDate
        /\ result.longestStreakEnd # NullDate
        /\ result.longestStreakStart[1] \in DaySet
        /\ result.longestStreakEnd[1] \in DaySet
        /\ result.longestStreakEnd[1]
             = result.longestStreakStart[1] + result.longestStreak - 1

\* The days the forward scan has processed: those of commitDates[0..i-1]
\* at the top of iteration i.
ScannedDays == {ToISODate(sk.commitDates[k]) : k \in 1..sk.i}

\* The first day of the run of scanned days that ends on day b.
RunStart(b) == SetMin({a \in ScannedDays : \A d \in a..b : d \in ScannedDays})

\* C28: during the forward scan, after each index processed: tempStreak
\* and longestStreak are at least 1, tempStreak is the length of the run of
\* consecutive days that ends on the day of that index, tempStreakStart is
\* the first day of that run, and the larger of longestStreak and
\* tempStreak is the length of the longest run among the days processed.
C28_ScanInvariant ==
    pc = "scan" =>
        LET last == ToISODate(sk.commitDates[sk.i])
            runs == {b - RunStart(b) + 1 : b \in ScannedDays}
        IN  /\ sk.tempStreak >= 1
            /\ sk.longestStreak >= 1
            /\ sk.tempStreak = last - RunStart(last) + 1
            /\ ToISODate(sk.tempStreakStart) = RunStart(last)
            /\ (IF sk.longestStreak > sk.tempStreak
                 THEN sk.longestStreak ELSE sk.tempStreak) = SetMax(runs)

\* C29: for a fixed history, when the tool is run again a day later the
\* record keeps longestStreak, its range, totalActiveDays and the
\* milestones, and currentStreak does not increase: it keeps its value while
\* the most recent active day is today or yesterday and is 0 from the
\* second day after it on.
C29_LaterRuns ==
    (Returned /\ prev # NoPrev) =>
        /\ result.longestStreak = prev.result.longestStreak
        /\ result.longestStreakStart = prev.result.longestStreakStart
        /\ result.longestStreakEnd = prev.result.longestStreakEnd
        /\ result.totalActiveDays = prev.result.totalActiveDays
        /\ result.streakMilestones = prev.result.streakMilestones
        /\ result.currentStreak <= prev.result.currentStreak
        /\ HasDays =>
             /\ Today - LastDay <= 1 => result.currentStreak = prev.result.currentStreak
             /\ Today - LastDay >= 2 => result.currentStreak = 0

---------------------------------------------------------------------------
(* The claim about the program of index.js, under CliSpec.                 *)

\* C13: when one statistics command fails, the run still ends without a
\* failure of the process and with every section shown.
C13_SingleFailureDoesNotFailTheRun ==
    (arg.fn = "getGitWrapped" /\ Cardinality(arg.fails) = 1 /\ ret.at = "end") =>
        /\ ret.exit = 0
        /\ Len(ret.shown) = 6

===========================================================================
